---- MODULE Spec2Model ----
(***************************************************************************)
(* Session Coordinator of the Qur'an & Sunnah Companion extension.         *)
(* Chrome build: src/chrome/background/background.js (the message router,  *)
(* the Dhikr reminder scheduler, the startup reconciler and the autoplay   *)
(* monitor), src/offscreen/offscreen.js (the media session store and the   *)
(* audio engine) and the popup script src/unnamed/part_005 (the reminder   *)
(* controls).  Firefox build: src/firefox/background/background.js (the    *)
(* audio engine inside the background page).                               *)
(*                                                                         *)
(* JavaScript runs one callback at a time; an async function runs          *)
(* synchronously up to its next await.  Every action below is one such     *)
(* synchronous run: the arrival of a message, the resolution of an awaited *)
(* promise, or the firing of a timer or of a media event.  Time is counted *)
(* in whole seconds and only where the code reads the clock (the dedup     *)
(* ledger, its eviction timers, the confirmation timers) and where a track *)
(* plays; every other timer may fire whenever it is pending.               *)
(***************************************************************************)
EXTENDS Integers, Sequences, FiniteSets, TLC

\* ------------------------------------------------------------------ bounds
\* number of message handlers that can be in flight at the same time
MaxCalls == 2
\* length of a track in seconds
TrackDuration == 3

\* -------------------------------------------------------- program constants
\* handleMessage: (now - lastOperationTime) < 2000
DedupWindowSec == 2
\* handleMessage: setTimeout(() => ongoingOperations.delete(key), 1000)
EvictDelaySec == 1
\* startDhikrNotifications: setTimeout(() => showDhikrNotification(true), 2000)
ConfirmDelaySec == 2
\* handleDhikrMessage: message.interval < 5
MinIntervalSec == 5
\* handleDhikrMessage: message.interval > 3600
MaxIntervalSec == 3600
\* startDhikrNotifications: intervalSeconds >= 60 selects chrome.alarms
AlarmThresholdSec == 60
\* onStartup / onInstalled: dhikrSettings.interval || 60
DefaultIntervalSec == 60
\* handleAutoplayNext: currentId >= 114 wraps to sura 1
LastSura == 114
\* toggleDhikrNotifications: const messageTimeout = 1000
ToggleTimeoutSec == 1

\* ---------------------------------------------------------------- inputs
DhikrActions == {"startDhikrNotifications", "stopDhikrNotifications", "updateDhikrInterval", "updateDhikrMode"}

Modes == {"notification", "popup"}

\* the mode field of a message: a recognised mode, absent, or any other string
ModePayloads == Modes \cup {"missing", "other"}

\* the interval field of a message: the values around every comparison of the code
Intervals == {4, 5, 59, 60, 3600, 3601}

\* the values on both sides of the two validation bounds
BoundaryIntervals == {4, 5, 3600, 3601}

\* what the user can type into #dhikr-interval: 0 stands for every text parseInt
\* turns into a falsy number
InputValues == {0, 3, 30}

PermissionLevels == {"granted", "denied", "default"}

AudioActions == {"playAudio", "pauseAudio", "resumeAudio", "seekAudio", "getAudioState"}

\* the vocabulary of handleMessage
Recognized == {"ping"} \cup DhikrActions \cup AudioActions

\* who sends a message: the popup (no tab, popup url), a content script (sender.tab
\* set) or the offscreen document (no tab, url containing offscreen.html)
Origins == {"popup", "tab", "offscreen"}

\* the origins the sender check lets through
UIOrigins == {"popup", "tab"}

\* action names outside the vocabulary: a foreign name and a recognised one in another case
UnknownActions == {"doTheImpossible", "playaudio"}

\* the suras a user starts; the url of a sura is written as its number
Suras == {LastSura - 1, LastSura}

\* the positions a user seeks to: before the start, inside the track and past its end
SeekTimes == {-1, 1, TrackDuration + 1}

\* the track that is being played and the track the user moves on to
TrackA == LastSura - 1
TrackB == LastSura

Slots == 1..MaxCalls

VARIABLES
  calls,                      \* slot -> the message handler running in it
  ongoingOperations,          \* the dedup ledger: key -> seconds since set, -1 = no entry
  evictTimers,                \* pending ongoingOperations.delete timeouts
  dhikrTimeoutId,             \* 1 = the id of a pending fine timer, 0 = null or the id of a timer that is gone
  timeouts,                   \* number of pending fine timers, the one dhikrTimeoutId names included
  dhikrIntervalSeconds,
  dhikrNotificationsActive,
  dhikrReminderMode,
  alarm,                      \* period of the chrome alarm 'dhikr-reminder', 0 = none
  confirmTimers,              \* each pending confirmation timeout: seconds left, and (observer) the mode its start armed
  delivered,                  \* observer: the step that led here delivered a reminder to the user
  firing,                     \* observer: the channels showDhikrNotification tried in the step that led here
  lastStart,                  \* observer: the last startDhikrNotifications message inside the dedup window
  stopsSettled,               \* observer: stops answered with success since the last start message, counted up to 2
  intervalInput,              \* popup: parseInt of the value of #dhikr-interval
  toggleEnabled,              \* popup: dataset.enabled of #toggle-notifications
  modeSelect,                 \* popup: the value of #reminder-mode
  toggleCall,                 \* popup: the slot of the message toggleDhikrNotifications awaits, 0 = none
  dhikrSettings,              \* chrome.storage.local: the persisted reminder settings
  offscreenDoc,               \* the offscreen document exists
  loadPending,                \* offscreen: the storage read of the document's start-up has not resolved
  audioPlayer,                \* offscreen: the <audio> element
  currentAudioState,          \* offscreen: the session record in memory
  audioState,                 \* chrome.storage.local: the persisted snapshot, << >> = no key
  autoplayEnabled,            \* chrome.storage.local: userSelections.autoplayEnabled
  audioMonitoringInterval,    \* the monitor's setInterval is set
  playsIssued,                \* observer: playAudio messages of the monitor since the track ended, counted up to 2
  pausedAt,                   \* observer: the position at which a playing track was paused, -1 = none
  lostSincePause              \* observer: the offscreen document was closed after that pause

\* the state of the background service worker
workerVars == <<calls, ongoingOperations, evictTimers, dhikrTimeoutId, timeouts, dhikrIntervalSeconds, dhikrNotificationsActive, dhikrReminderMode, alarm, confirmTimers, delivered, firing, lastStart, stopsSettled>>

\* the state of the popup page and of the storage it writes
popupVars == <<intervalInput, toggleEnabled, modeSelect, toggleCall, dhikrSettings>>

\* everything outside the background service worker
outsideVars == <<popupVars, offscreenDoc, loadPending, audioPlayer, currentAudioState, audioState, autoplayEnabled, audioMonitoringInterval, playsIssued, pausedAt, lostSincePause>>

\* the state of the offscreen document and of the snapshot it writes
offscreenVars == <<offscreenDoc, loadPending, audioPlayer, currentAudioState, audioState>>

monitorVars == <<autoplayEnabled, audioMonitoringInterval, playsIssued>>

audioVars == <<offscreenVars, monitorVars, pausedAt, lostSincePause>>

\* the reminder state of the service worker
dhikrVars == <<ongoingOperations, evictTimers, dhikrTimeoutId, timeouts, dhikrIntervalSeconds, dhikrNotificationsActive, dhikrReminderMode, alarm, confirmTimers, lastStart, stopsSettled>>

vars == <<workerVars, outsideVars>>

schedVars == <<dhikrTimeoutId, timeouts, dhikrIntervalSeconds, dhikrNotificationsActive, dhikrReminderMode, alarm, confirmTimers>>

\* ---------------------------------------------------------------- helpers
Min(a, b) == IF a < b THEN a ELSE b

Max(a, b) == IF a > b THEN a ELSE b

\* the bounds taken exclusive
ValidIntervalExclusive(i) == i > MinIntervalSec /\ i < MaxIntervalSec

\* typeof interval === 'number' && interval >= 5 && interval <= 3600
ValidInterval(i) == i >= MinIntervalSec /\ i <= MaxIntervalSec

\* mode = 'notification' default parameter of startDhikrNotifications
DefaultMode(m) == IF m = "missing" THEN "notification" ELSE m

\* lastOperationTime && (now - lastOperationTime) < 2000
TooRecent(key) == ongoingOperations[key] >= 0 /\ ongoingOperations[key] < DedupWindowSec

\* if (mode === 'notification') the permission level is queried
NeedsPermission(m) == DefaultMode(m) = "notification"

\* every level but 'granted' taken as a refusal
PermissionBlocksUnlessGranted(level) == level # "granted"

\* if (permissionLevel === 'denied') throw
PermissionBlocks(level) == level = "denied"

\* the alarm chosen only above one minute
UsesAlarmAbove(i) == i > AlarmThresholdSec

\* if (intervalSeconds >= 60) chrome.alarms.create else scheduleNextDhikrTimeout
UsesAlarm(i) == i >= AlarmThresholdSec

\* what was armed when a message arrived
Primitive == IF alarm # 0 /\ timeouts > 0 THEN "both" ELSE IF alarm # 0 THEN "alarm" ELSE IF timeouts > 0 THEN "timer" ELSE "idle"

\* chrome.storage.local holds no dhikrSettings key
NoSettings == [present |-> FALSE, notificationsEnabled |-> FALSE, interval |-> 0, mode |-> "missing"]

\* saveDhikrSettings: the record written from the popup's controls, no field validated
SaveDhikrSettings(enabled, interval, mode) == [present |-> TRUE, notificationsEnabled |-> enabled, interval |-> interval, mode |-> mode]

\* value || fallback on a number: 0 and NaN are falsy
OrDefault(value, fallback) == IF value = 0 THEN fallback ELSE value

\* validateInterval of the popup: !(isNaN(value) || value < 5 || value > 3600)
PopupValidInterval(v) == v >= MinIntervalSec /\ v <= MaxIntervalSec

NoArrival == [age |-> -1, dup |-> FALSE]

\* the failure branches of handleAudioMessage without their sendResponse
FailureResponsesNone(answers) == answers

\* handleAudioMessage: each failure branch and the catch block call sendResponse once
FailureResponses(answers) == answers + 1

\* the <audio> element of a new document, and the element after src = '' and load()
NoPlayer == [src |-> 0, playing |-> FALSE, currentTime |-> 0, loaded |-> FALSE]

\* no firing: the step was not a run of showDhikrNotification
NoFiring == [mode |-> "none", attempted |-> << >>, by |-> {}]

\* the initial currentAudioState of the offscreen script
NoAudio == [isPlaying |-> FALSE, currentTime |-> 0, duration |-> 0, audioUrl |-> 0, suraId |-> 0]

\* audioPlayer.duration || 0: NaN until the metadata is loaded
PlayerDuration(player) == IF player.loaded THEN TrackDuration ELSE 0

\* saveAudioState: position and duration are copied from the element
Snapshot(st, player) == [st EXCEPT !.currentTime = player.currentTime, !.duration = PlayerDuration(player)]

\* the monitor's test for a finished track
EndOfTrack(st) == ~st.isPlaying /\ st.currentTime >= st.duration /\ st.duration > 0 /\ st.currentTime > 0

\* Number.prototype.toString: the decimal digits of a track id, most significant first
RECURSIVE toString(_)
toString(n) == IF n < 10 THEN <<n>> ELSE toString(n \div 10) \o <<n % 10>>

\* parseInt of a string of decimal digits
RECURSIVE parseInt(_)
parseInt(s) == IF s = << >> THEN 0 ELSE parseInt(SubSeq(s, 1, Len(s) - 1)) * 10 + s[Len(s)]

\* the popup without the wrap: the id after currentSuraId
getNextSuraIdNoWrap(currentSuraId) == toString(parseInt(currentSuraId) + 1)

\* the popup's getNextSuraId: currentId >= 114 ? '1' : (currentId + 1).toString()
getNextSuraId(currentSuraId) ==
  LET currentId == parseInt(currentSuraId)
  IN IF currentId >= LastSura THEN <<1>> ELSE toString(currentId + 1)

\* nextSuraId of handleAutoplayNext: currentId >= 114 ? '1' : (currentId + 1).toString()
nextSuraId(currentSuraId) ==
  LET currentId == parseInt(currentSuraId)
  IN IF currentId >= LastSura THEN <<1>> ELSE toString(currentId + 1)

\* the track handleAutoplayNext moves on to from track n
NextSura(n) == parseInt(nextSuraId(toString(n)))

\* the position of a playing track at the moment pauseAudio runs
PausePoint == IF audioPlayer.playing THEN audioPlayer.currentTime ELSE -1

\* perm: the local permissionLevel of startDhikrNotifications, "unread" until it is awaited
IdleCall == [action |-> "none", interval |-> 0, mode |-> "missing", sender |-> "none", pc |-> "idle", answers |-> 0, result |-> "none", perm |-> "unread", prior |-> "idle", sura |-> 0, time |-> 0, reload |-> FALSE, stale |-> FALSE]

\* prior: what was armed when the message arrived
NewCall(a, i, m, s) == [action |-> a, interval |-> i, mode |-> m, sender |-> s, pc |-> "recv", answers |-> 0, result |-> "none", perm |-> "unread", prior |-> Primitive, sura |-> 0, time |-> 0, reload |-> FALSE, stale |-> FALSE]

FreeSlot == CHOOSE c \in Slots : calls[c].pc = "idle" /\ \A d \in 1..(c-1) : calls[d].pc # "idle"

HasFreeSlot == \E c \in Slots : calls[c].pc = "idle"

\* no handler is running: a client that awaits every response sends only then
Quiet == \A c \in Slots : calls[c].pc = "idle"

\* no handler is running and every ledger entry has been evicted
Calm == Quiet /\ \A k \in DhikrActions : ongoingOperations[k] = -1

\* the observer's record of a start message: age 0, dup = it was answered as a duplicate
StartArrived == lastStart' = [age |-> 0, dup |-> TooRecent("startDhikrNotifications")]

Init ==
  /\ calls = [c \in Slots |-> IdleCall]
  /\ ongoingOperations = [k \in DhikrActions |-> -1]
  /\ evictTimers = {}
  /\ dhikrTimeoutId = 0
  /\ timeouts = 0
  /\ dhikrIntervalSeconds = 60
  /\ dhikrNotificationsActive = FALSE
  /\ dhikrReminderMode = "notification"
  /\ alarm = 0
  /\ confirmTimers = << >>
  /\ delivered = FALSE
  /\ firing = NoFiring
  /\ lastStart = NoArrival
  /\ stopsSettled = 0
  /\ intervalInput = 60
  /\ toggleEnabled = FALSE
  /\ modeSelect = "notification"
  /\ toggleCall = 0
  /\ dhikrSettings = NoSettings
  /\ offscreenDoc = FALSE
  /\ loadPending = FALSE
  /\ audioPlayer = NoPlayer
  /\ currentAudioState = NoAudio
  /\ audioState = << >>
  /\ autoplayEnabled = FALSE
  /\ audioMonitoringInterval = FALSE
  /\ playsIssued = 0
  /\ pausedAt = -1
  /\ lostSincePause = FALSE

\* ------------------------------------------------------- message router
\* handleMessage, duplicate branch: sendResponse({success:false, 'Operation called too frequently'})
RejectDuplicate(c, rec) ==
  /\ calls' = [calls EXCEPT ![c] = [rec EXCEPT !.pc = "done", !.result = "OperationInProgress", !.answers = @ + 1]]
  /\ UNCHANGED <<ongoingOperations, evictTimers, schedVars>>

\* sendResponse of handleDhikrMessage, then the finally block of handleMessage;
\* sendResponse of handleAudioMessage, which keeps no ledger entry; a call of the
\* startup reconciler has no sender to answer
Answer(c, rec, result) ==
  IF rec.action \in DhikrActions
  THEN /\ calls' = [calls EXCEPT ![c] = [rec EXCEPT !.pc = "done", !.result = result, !.answers = @ + 1]]
       /\ evictTimers' = evictTimers \cup {[key |-> rec.action, rem |-> EvictDelaySec]}
  ELSE IF rec.action \in AudioActions
  THEN /\ calls' = [calls EXCEPT ![c] = [rec EXCEPT !.pc = "done", !.result = result, !.answers = IF result = "ok" THEN @ + 1 ELSE FailureResponses(@)]]
       /\ UNCHANGED evictTimers
  ELSE /\ calls' = [calls EXCEPT ![c] = [rec EXCEPT !.pc = "done", !.result = result]]
       /\ UNCHANGED evictTimers

\* stopDhikrNotifications up to its await: the flag is dropped and alarms.clear is issued
StopDhikrNotifications(c, rec) ==
  /\ dhikrNotificationsActive' = FALSE
  /\ alarm' = 0
  /\ calls' = [calls EXCEPT ![c] = [rec EXCEPT !.pc = "clear"]]
  /\ UNCHANGED <<evictTimers, dhikrTimeoutId, timeouts, dhikrIntervalSeconds, dhikrReminderMode, confirmTimers>>

\* startDhikrNotifications up to its first await
StartDhikrNotifications(c, rec) ==
  IF NeedsPermission(rec.mode)
  THEN /\ calls' = [calls EXCEPT ![c] = [rec EXCEPT !.pc = "perm"]]
       /\ UNCHANGED <<evictTimers, schedVars>>
  ELSE StopDhikrNotifications(c, rec)

RecvStart(i, m) ==
  /\ HasFreeSlot
  /\ StartArrived
  /\ stopsSettled' = 0
  /\ LET c == FreeSlot
         rec == NewCall("startDhikrNotifications", i, m, "popup")
     IN IF TooRecent("startDhikrNotifications") THEN RejectDuplicate(c, rec)
        ELSE /\ ongoingOperations' = [ongoingOperations EXCEPT !["startDhikrNotifications"] = 0]
             /\ IF ValidInterval(i) THEN StartDhikrNotifications(c, rec)
                ELSE Answer(c, rec, "InvalidInput") /\ UNCHANGED schedVars
  /\ delivered' = FALSE /\ firing' = NoFiring

RecvStop ==
  /\ HasFreeSlot
  /\ UNCHANGED lastStart
  /\ LET c == FreeSlot
         rec == NewCall("stopDhikrNotifications", 0, "missing", "popup")
     IN IF TooRecent("stopDhikrNotifications") THEN RejectDuplicate(c, rec)
        ELSE /\ ongoingOperations' = [ongoingOperations EXCEPT !["stopDhikrNotifications"] = 0]
             /\ StopDhikrNotifications(c, rec)
  /\ delivered' = FALSE /\ firing' = NoFiring
  /\ UNCHANGED stopsSettled

\* updateDhikrInterval: restarts with the mode in force, only when the flag is set
RecvUpdateInterval(i) ==
  /\ HasFreeSlot
  /\ UNCHANGED lastStart
  /\ stopsSettled' = IF dhikrNotificationsActive THEN 0 ELSE stopsSettled
  /\ LET c == FreeSlot
         rec == NewCall("updateDhikrInterval", i, dhikrReminderMode, "popup")
     IN IF TooRecent("updateDhikrInterval") THEN RejectDuplicate(c, rec)
        ELSE /\ ongoingOperations' = [ongoingOperations EXCEPT !["updateDhikrInterval"] = 0]
             /\ IF ~ValidInterval(i) THEN Answer(c, rec, "InvalidInput") /\ UNCHANGED schedVars
                ELSE IF dhikrNotificationsActive THEN StartDhikrNotifications(c, rec)
                ELSE Answer(c, rec, "ok") /\ UNCHANGED schedVars
  /\ delivered' = FALSE /\ firing' = NoFiring

RecvUpdateMode(m) ==
  /\ HasFreeSlot
  /\ UNCHANGED lastStart
  /\ LET c == FreeSlot
         rec == NewCall("updateDhikrMode", 0, m, "popup")
     IN IF TooRecent("updateDhikrMode") THEN RejectDuplicate(c, rec)
        ELSE /\ ongoingOperations' = [ongoingOperations EXCEPT !["updateDhikrMode"] = 0]
             /\ IF m \in Modes
                THEN /\ dhikrReminderMode' = m
                     /\ Answer(c, rec, "ok")
                     /\ UNCHANGED <<dhikrTimeoutId, timeouts, dhikrIntervalSeconds, dhikrNotificationsActive, alarm, confirmTimers>>
                ELSE Answer(c, rec, "InvalidInput") /\ UNCHANGED schedVars
  /\ delivered' = FALSE /\ firing' = NoFiring
  /\ UNCHANGED stopsSettled

\* the handler has returned and its response has been taken by the sender
Return(c) ==
  /\ calls[c].pc = "done"
  /\ c # toggleCall
  /\ calls' = [calls EXCEPT ![c] = IdleCall]
  /\ delivered' = FALSE /\ firing' = NoFiring
  /\ UNCHANGED <<ongoingOperations, evictTimers, schedVars, lastStart, stopsSettled>>
  /\ UNCHANGED outsideVars

\* ------------------------------------------------------------ scheduler
\* await getNotificationPermissionLevel() resolves inside startDhikrNotifications
PermResolve(c, level) ==
  /\ calls[c].pc = "perm"
  /\ LET rec == [calls[c] EXCEPT !.perm = level]
     IN IF PermissionBlocks(level)
        THEN /\ dhikrNotificationsActive' = FALSE
             /\ Answer(c, rec, "PermissionDenied")
             /\ UNCHANGED <<dhikrTimeoutId, timeouts, dhikrIntervalSeconds, dhikrReminderMode, alarm, confirmTimers>>
        ELSE StopDhikrNotifications(c, rec)
  /\ delivered' = FALSE /\ firing' = NoFiring
  /\ UNCHANGED <<ongoingOperations, lastStart, stopsSettled>>
  /\ UNCHANGED outsideVars

\* the id forgotten without clearTimeout
KeptTimeouts(pending, ref) == pending

\* if (dhikrTimeoutId) { clearTimeout(dhikrTimeoutId); dhikrTimeoutId = null }
ClearedTimeouts(pending, ref) == pending - ref

\* a callback that sets no next timer
ScheduleNoTimeout(active, pending, ref) == [timeouts |-> pending, id |-> ref]

\* scheduleNextDhikrTimeout: the pending timers and the stored id after the call;
\* the timer whose id is overwritten stays pending
ScheduleNextDhikrTimeout(active, pending, ref) ==
  IF active
  THEN [timeouts |-> pending + 1, id |-> 1]
  ELSE [timeouts |-> pending, id |-> ref]

\* await chrome.alarms.clear resolves: the rest of stopDhikrNotifications, then the caller
ClearResolve(c) ==
  /\ calls[c].pc = "clear"
  /\ LET cleared == ClearedTimeouts(timeouts, dhikrTimeoutId)
     IN IF calls[c].action = "stopDhikrNotifications"
        THEN /\ timeouts' = cleared
             /\ dhikrTimeoutId' = 0
             /\ Answer(c, calls[c], "ok")
             /\ stopsSettled' = Min(stopsSettled + 1, 2)
             /\ UNCHANGED <<dhikrIntervalSeconds, dhikrNotificationsActive, dhikrReminderMode, alarm, confirmTimers>>
        ELSE /\ dhikrIntervalSeconds' = calls[c].interval
             /\ dhikrNotificationsActive' = TRUE
             /\ dhikrReminderMode' = DefaultMode(calls[c].mode)
             /\ UNCHANGED stopsSettled
             /\ IF UsesAlarm(calls[c].interval)
                THEN /\ alarm' = calls[c].interval
                     /\ timeouts' = cleared
                     /\ dhikrTimeoutId' = 0
                     /\ calls' = [calls EXCEPT ![c].pc = "create"]
                     /\ UNCHANGED <<evictTimers, confirmTimers>>
                ELSE LET s == ScheduleNextDhikrTimeout(TRUE, cleared, 0)
                     IN /\ timeouts' = s.timeouts
                        /\ dhikrTimeoutId' = s.id
                        /\ confirmTimers' = Append(confirmTimers, [rem |-> ConfirmDelaySec, armed |-> DefaultMode(calls[c].mode)])
                        /\ Answer(c, calls[c], "ok")
                        /\ UNCHANGED alarm
  /\ delivered' = FALSE /\ firing' = NoFiring
  /\ UNCHANGED <<ongoingOperations, lastStart>>
  /\ UNCHANGED outsideVars

\* await chrome.alarms.create resolves: the confirmation timer is set and the call answered
CreateResolve(c) ==
  /\ calls[c].pc = "create"
  /\ confirmTimers' = Append(confirmTimers, [rem |-> ConfirmDelaySec, armed |-> DefaultMode(calls[c].mode)])
  /\ Answer(c, calls[c], "ok")
  /\ UNCHANGED <<ongoingOperations, dhikrTimeoutId, timeouts, dhikrIntervalSeconds, dhikrNotificationsActive, dhikrReminderMode, alarm, lastStart, stopsSettled>>
  /\ delivered' = FALSE /\ firing' = NoFiring
  /\ UNCHANGED outsideVars

\* ------------------------------------------------------------- delivery
\* showDhikrNotification: the channel that delivered the entry, "none" when no channel did
DeliveryChannel(mode, isTest, perm, popupOk, chromeOk, browserOk, windowOk) ==
  IF mode = "popup" THEN (IF popupOk THEN "popup" ELSE "none")
  ELSE IF perm = "denied" THEN "none"
  ELSE IF chromeOk THEN "chrome"
  ELSE IF browserOk THEN "browser"
  ELSE IF isTest /\ windowOk THEN "window"
  ELSE "none"

Outcomes == PermissionLevels \X BOOLEAN \X BOOLEAN \X BOOLEAN \X BOOLEAN

\* the results showDhikrNotification can have in the mode in force
Deliveries(isTest) == {DeliveryChannel(dhikrReminderMode, isTest, o[1], o[2], o[3], o[4], o[5]) # "none" : o \in Outcomes}

\* the fallback runs whatever the attempt before it reported
AfterAnyOutcome(chromeNotificationWorked) == TRUE

\* if (!chromeNotificationWorked): the guard of each fallback after the first attempt
AfterFailure(chromeNotificationWorked) == ~chromeNotificationWorked

\* showDhikrNotification: the channels it tries, in the order it tries them
Attempted(mode, isTest, perm, chromeOk, browserOk) ==
  IF mode = "popup" THEN <<"popup">>
  ELSE IF perm = "denied" THEN << >>
  ELSE <<"chrome">>
       \o (IF AfterFailure(chromeOk) THEN <<"browser">> ELSE << >>)
       \o (IF AfterFailure(chromeOk \/ (AfterFailure(chromeOk) /\ browserOk))
           THEN (IF isTest THEN <<"window">> ELSE <<"sound">>)
           ELSE << >>)

\* whether the channel shows the entry once tried; the offscreen document has no
\* handler for playNotificationSound, so the sound never does
ChannelWorks(channel, popupOk, chromeOk, browserOk, windowOk) ==
  CASE channel = "popup" -> popupOk
    [] channel = "chrome" -> chromeOk
    [] channel = "browser" -> browserOk
    [] channel = "window" -> windowOk
    [] OTHER -> FALSE

\* one run of showDhikrNotification: the mode it read, what it tried and what delivered
Run(mode, isTest, perm, popupOk, chromeOk, browserOk, windowOk) ==
  LET tried == Attempted(mode, isTest, perm, chromeOk, browserOk)
  IN [mode |-> mode, attempted |-> tried,
      by |-> {tried[i] : i \in {j \in DOMAIN tried : ChannelWorks(tried[j], popupOk, chromeOk, browserOk, windowOk)}}]

\* the runs showDhikrNotification can have in the mode in force
Firings(isTest) ==
  {[run |-> Run(dhikrReminderMode, isTest, o[1], o[2], o[3], o[4], o[5]),
    delivered |-> DeliveryChannel(dhikrReminderMode, isTest, o[1], o[2], o[3], o[4], o[5]) # "none"] : o \in Outcomes}

ShowDhikrNotification(isTest) ==
  \E f \in Firings(isTest) : firing' = f.run /\ delivered' = f.delivered

\* chrome.alarms.onAlarm listener
AlarmFire ==
  /\ alarm # 0
  /\ ShowDhikrNotification(FALSE)
  /\ UNCHANGED <<calls, ongoingOperations, evictTimers, schedVars, lastStart, stopsSettled>>
  /\ UNCHANGED outsideVars

\* the callback scheduleNextDhikrTimeout passed to setTimeout; named: the timer that
\* fires is the one dhikrTimeoutId names, otherwise one whose id was overwritten
TimeoutFire(named) ==
  /\ IF named THEN dhikrTimeoutId = 1 ELSE timeouts > dhikrTimeoutId
  /\ LET ref == IF named THEN 0 ELSE dhikrTimeoutId
     IN IF dhikrNotificationsActive
        THEN /\ ShowDhikrNotification(FALSE)
             /\ LET s == ScheduleNextDhikrTimeout(TRUE, timeouts - 1, ref)
                IN timeouts' = s.timeouts /\ dhikrTimeoutId' = s.id
        ELSE /\ timeouts' = timeouts - 1
             /\ dhikrTimeoutId' = ref
             /\ delivered' = FALSE /\ firing' = NoFiring
  /\ UNCHANGED <<calls, ongoingOperations, evictTimers, dhikrIntervalSeconds, dhikrNotificationsActive, dhikrReminderMode, alarm, confirmTimers, lastStart, stopsSettled>>
  /\ UNCHANGED outsideVars

\* the confirmation callback startDhikrNotifications passed to setTimeout
ConfirmFire ==
  /\ confirmTimers # << >>
  /\ Head(confirmTimers).rem = 0
  /\ confirmTimers' = Tail(confirmTimers)
  /\ ShowDhikrNotification(TRUE)
  /\ UNCHANGED <<calls, ongoingOperations, evictTimers, dhikrTimeoutId, timeouts, dhikrIntervalSeconds, dhikrNotificationsActive, dhikrReminderMode, alarm, lastStart, stopsSettled>>
  /\ UNCHANGED outsideVars

\* ---------------------------------------------------------------- popup
\* the input event of #dhikr-interval: validateInterval saves a valid value and, with
\* reminders on, sends updateDhikrInterval without awaiting the answer
InputInterval(v) ==
  /\ toggleEnabled
  /\ intervalInput' = v
  /\ IF PopupValidInterval(v)
     THEN /\ dhikrSettings' = SaveDhikrSettings(toggleEnabled, v, modeSelect)
          /\ RecvUpdateInterval(v)
     ELSE UNCHANGED <<dhikrSettings, workerVars>>
  /\ UNCHANGED <<toggleEnabled, modeSelect, toggleCall, audioVars>>

\* the change event of #reminder-mode: saveDhikrSettings first, then updateDhikrMode
\* when reminders are on
ChangeMode(m) ==
  /\ toggleEnabled
  /\ modeSelect' = m
  /\ dhikrSettings' = SaveDhikrSettings(toggleEnabled, intervalInput, m)
  /\ RecvUpdateMode(m)
  /\ UNCHANGED <<intervalInput, toggleEnabled, toggleCall, audioVars>>

\* toggleDhikrNotifications up to its await, reminders off: validateInterval, then
\* startDhikrNotifications is sent
ToggleOn ==
  /\ toggleCall = 0
  /\ ~toggleEnabled
  /\ PopupValidInterval(intervalInput)
  /\ dhikrSettings' = SaveDhikrSettings(toggleEnabled, intervalInput, modeSelect)
  /\ toggleCall' = FreeSlot
  /\ RecvStart(intervalInput, modeSelect)
  /\ UNCHANGED <<intervalInput, toggleEnabled, modeSelect, audioVars>>

\* toggleDhikrNotifications up to its await, reminders on: stopDhikrNotifications is sent
ToggleOff ==
  /\ toggleCall = 0
  /\ toggleEnabled
  /\ toggleCall' = FreeSlot
  /\ RecvStop
  /\ UNCHANGED <<intervalInput, toggleEnabled, modeSelect, dhikrSettings, audioVars>>

\* toggleDhikrNotifications after its await: only a success flips the button and
\* saves the settings
ToggleReturn(c) ==
  /\ c = toggleCall
  /\ calls[c].pc = "done"
  /\ calls' = [calls EXCEPT ![c] = IdleCall]
  /\ toggleCall' = 0
  /\ IF calls[c].result = "ok"
     THEN /\ toggleEnabled' = ~toggleEnabled
          /\ dhikrSettings' = SaveDhikrSettings(~toggleEnabled, intervalInput, modeSelect)
     ELSE UNCHANGED <<toggleEnabled, dhikrSettings>>
  /\ delivered' = FALSE /\ firing' = NoFiring
  /\ UNCHANGED <<ongoingOperations, evictTimers, schedVars, lastStart, stopsSettled, intervalInput, modeSelect, audioVars>>

\* loadDhikrSettings: the controls of a freshly opened popup
LoadDhikrSettings ==
  IF dhikrSettings.present
  THEN /\ toggleEnabled' = dhikrSettings.notificationsEnabled
       /\ intervalInput' = OrDefault(dhikrSettings.interval, DefaultIntervalSec)
       /\ modeSelect' = DefaultMode(dhikrSettings.mode)
  ELSE /\ toggleEnabled' = FALSE
       /\ intervalInput' = 60
       /\ modeSelect' = "notification"

\* --------------------------------------------------- startup reconciler
\* the browser restarts or the extension is installed or updated: the service worker
\* and the offscreen document start from their initial state, the timeouts are gone,
\* the alarm may have survived, chrome.storage.local is kept; the onStartup or
\* onInstalled listener runs up to its await of storage.local.get
BrowserStartup(event) ==
  /\ Quiet
  /\ calls' = [calls EXCEPT ![FreeSlot] = [NewCall(event, 0, "missing", "none") EXCEPT !.pc = "storage", !.prior = "idle"]]
  /\ ongoingOperations' = [k \in DhikrActions |-> -1]
  /\ evictTimers' = {}
  /\ dhikrTimeoutId' = 0
  /\ timeouts' = 0
  /\ dhikrIntervalSeconds' = 60
  /\ dhikrNotificationsActive' = FALSE
  /\ dhikrReminderMode' = "notification"
  /\ \E kept \in BOOLEAN : alarm' = IF kept THEN alarm ELSE 0
  /\ confirmTimers' = << >>
  /\ delivered' = FALSE /\ firing' = NoFiring
  /\ lastStart' = NoArrival
  /\ stopsSettled' = 0
  /\ LoadDhikrSettings
  /\ offscreenDoc' = FALSE
  /\ loadPending' = FALSE
  /\ audioPlayer' = NoPlayer
  /\ currentAudioState' = NoAudio
  /\ audioMonitoringInterval' = FALSE
  /\ UNCHANGED <<toggleCall, dhikrSettings, audioState, autoplayEnabled, playsIssued, pausedAt, lostSincePause>>

\* storage.local.get resolves in the listener: with notificationsEnabled the scheduler
\* is started from the persisted interval and mode
StorageResolve(c) ==
  /\ calls[c].pc = "storage"
  /\ IF dhikrSettings.notificationsEnabled
     THEN StartDhikrNotifications(c, [calls[c] EXCEPT !.interval = OrDefault(dhikrSettings.interval, DefaultIntervalSec), !.mode = DefaultMode(dhikrSettings.mode), !.prior = Primitive])
     ELSE /\ calls' = [calls EXCEPT ![c].pc = "done"]
          /\ UNCHANGED <<evictTimers, schedVars>>
  /\ delivered' = FALSE /\ firing' = NoFiring
  /\ UNCHANGED <<ongoingOperations, lastStart, stopsSettled, outsideVars>>

\* ------------------------------------------------------ audio: router side
\* handleMessage, ping branch: answered before anything else is looked at
\* the ping branch placed after the sender check
PingResultAfterSenderCheck(sender) == IF sender = "offscreen" THEN "Ignored" ELSE "ok"

\* the ping branch is the first statement of handleMessage: the sender is not read
PingResult(sender) == "ok"

RecvPing(sender) ==
  /\ HasFreeSlot
  /\ calls' = [calls EXCEPT ![FreeSlot] = [NewCall("ping", 0, "missing", sender) EXCEPT !.pc = "done", !.result = PingResult(sender), !.answers = 1]]
  /\ delivered' = FALSE /\ firing' = NoFiring
  /\ UNCHANGED <<dhikrVars, outsideVars>>

\* the error without the action name
UnknownActionErrorGeneric(x) == "Unknown action"

\* `Unknown action: ${message.action}`
UnknownActionError(x) == "Unknown action: " \o x

\* handleMessage, last branch: an action that no branch took is answered with a failure
RecvUnknown(x, sender) ==
  /\ HasFreeSlot
  /\ calls' = [calls EXCEPT ![FreeSlot] = [NewCall(x, 0, "missing", sender) EXCEPT !.pc = "done", !.result = UnknownActionError(x), !.answers = 1]]
  /\ delivered' = FALSE /\ firing' = NoFiring
  /\ UNCHANGED <<dhikrVars, outsideVars>>

\* the sender check placed after the ledger bookkeeping of the reminder branch
RecvFromOffscreenAfterLedger(a) ==
  /\ HasFreeSlot
  /\ calls' = [calls EXCEPT ![FreeSlot] = [NewCall(a, 0, "missing", "offscreen") EXCEPT !.pc = "done", !.result = "Ignored", !.answers = 1]]
  /\ delivered' = FALSE /\ firing' = NoFiring
  /\ ongoingOperations' = IF a \in DhikrActions THEN [ongoingOperations EXCEPT ![a] = 0] ELSE ongoingOperations
  /\ UNCHANGED <<evictTimers, schedVars, lastStart, stopsSettled, outsideVars>>

\* handleMessage, sender check: a message of the offscreen document is answered with a failure
RecvFromOffscreen(a) ==
  /\ HasFreeSlot
  /\ calls' = [calls EXCEPT ![FreeSlot] = [NewCall(a, 0, "missing", "offscreen") EXCEPT !.pc = "done", !.result = "Ignored", !.answers = 1]]
  /\ delivered' = FALSE /\ firing' = NoFiring
  /\ UNCHANGED <<dhikrVars, outsideVars>>

\* handleMessage and handleAudioMessage up to await chrome.offscreen.hasDocument();
\* playAudio carries the track, seekAudio the position
RecvAudio(a, sura, time) ==
  /\ HasFreeSlot
  /\ calls' = [calls EXCEPT ![FreeSlot] = [NewCall(a, 0, "missing", "popup") EXCEPT !.pc = "hasDocument", !.sura = IF a = "playAudio" THEN sura ELSE 0, !.time = IF a = "seekAudio" THEN time ELSE 0]]
  /\ delivered' = FALSE /\ firing' = NoFiring
  /\ UNCHANGED <<dhikrVars, outsideVars>>

\* playAudio of the offscreen document up to its await of the HEAD fetch: pause(),
\* src = '', load().  load() puts a position that is not 0 back to 0 and fires
\* timeupdate, whose listener copies position 0 and duration NaN || 0 into the state.
PlayAudioBegin(c, rec) ==
  /\ audioPlayer' = NoPlayer
  /\ currentAudioState' = IF audioPlayer.currentTime # 0 THEN Snapshot(currentAudioState, NoPlayer) ELSE currentAudioState
  /\ calls' = [calls EXCEPT ![c] = [rec EXCEPT !.pc = "head"]]
  /\ UNCHANGED <<offscreenDoc, loadPending, audioState>>

\* the reply of the offscreen listener is on its way to the sender
Reply(c, rec, result) == calls' = [calls EXCEPT ![c] = [rec EXCEPT !.pc = "reply", !.result = result]]

\* pauseAudio: audioPlayer.pause(), isPlaying = false, saveAudioState()
PauseAudio(c, rec) ==
  LET player == [audioPlayer EXCEPT !.playing = FALSE]
      st == Snapshot([currentAudioState EXCEPT !.isPlaying = FALSE], player)
  IN /\ audioPlayer' = player
     /\ currentAudioState' = st
     /\ audioState' = <<st>>
     /\ Reply(c, rec, "ok")
     /\ UNCHANGED <<offscreenDoc, loadPending>>

\* audioPlayer.currentTime = time: a loaded element seeks to the nearest position
\* inside the track; an element without metadata keeps the value as its default
\* playback start position and returns it from the getter
SetCurrentTime(player, time) ==
  [player EXCEPT !.currentTime = IF player.loaded THEN Max(0, Min(time, TrackDuration)) ELSE time]

\* seekAudio: the element keeps the position inside the loaded track, saveAudioState()
\* then copies the element's position into the state
SeekAudio(c, rec) ==
  LET player == SetCurrentTime(audioPlayer, rec.time)
      st == Snapshot(currentAudioState, player)
  IN /\ audioPlayer' = player
     /\ currentAudioState' = st
     /\ audioState' = <<st>>
     /\ Reply(c, rec, "ok")
     /\ UNCHANGED <<offscreenDoc, loadPending>>

\* readyState === 0 || networkState === 3 || src !== currentAudioState.audioUrl
NeedsReload == ~audioPlayer.loaded \/ audioPlayer.src # currentAudioState.audioUrl

\* resumeAudio up to its first await
ResumeAudio(c, rec) ==
  IF currentAudioState.audioUrl = 0
  THEN /\ currentAudioState' = [currentAudioState EXCEPT !.isPlaying = FALSE]
       /\ Reply(c, rec, "fail")
       /\ UNCHANGED <<offscreenDoc, loadPending, audioPlayer, audioState>>
  ELSE LET saved == [rec EXCEPT !.time = currentAudioState.currentTime, !.sura = currentAudioState.suraId, !.reload = NeedsReload]
       IN IF NeedsReload
          THEN PlayAudioBegin(c, saved)
          ELSE /\ calls' = [calls EXCEPT ![c] = [saved EXCEPT !.pc = "play"]]
               /\ UNCHANGED offscreenVars

\* chrome.runtime.sendMessage to the offscreen document and the synchronous part of
\* its listener; without a document the callback sees runtime.lastError
Forward(c, rec) ==
  IF ~offscreenDoc
  THEN Reply(c, rec, "lastError") /\ UNCHANGED offscreenVars
  ELSE CASE rec.action = "playAudio" -> PlayAudioBegin(c, rec)
         [] rec.action = "pauseAudio" -> PauseAudio(c, rec)
         [] rec.action = "resumeAudio" -> ResumeAudio(c, rec)
         [] rec.action = "seekAudio" -> SeekAudio(c, rec)
         [] OTHER -> Reply(c, rec, "ok") /\ UNCHANGED offscreenVars

\* createOffscreenDocumentIfNeeded: await chrome.offscreen.hasDocument() resolves
HasDocumentResolve(c) ==
  /\ calls[c].pc = "hasDocument"
  /\ calls[c].action \in AudioActions
  /\ IF offscreenDoc
     THEN Forward(c, calls[c])
     ELSE /\ calls' = [calls EXCEPT ![c].pc = "createDocument"]
          /\ UNCHANGED offscreenVars
  /\ delivered' = FALSE /\ firing' = NoFiring
  /\ UNCHANGED <<dhikrVars, popupVars, monitorVars, pausedAt, lostSincePause>>

\* await chrome.offscreen.createDocument resolves or throws; a second document cannot
\* be created.  The new document starts its read of the persisted audioState.
CreateDocumentResolve(c, ok) ==
  /\ calls[c].pc = "createDocument"
  /\ IF ok /\ ~offscreenDoc
     THEN /\ offscreenDoc' = TRUE
          /\ loadPending' = TRUE
          /\ audioPlayer' = NoPlayer
          /\ currentAudioState' = NoAudio
          /\ calls' = [calls EXCEPT ![c].pc = "wait"]
          /\ UNCHANGED <<audioState, evictTimers>>
     ELSE /\ Answer(c, calls[c], "AudioFailed")
          /\ UNCHANGED offscreenVars
  /\ delivered' = FALSE /\ firing' = NoFiring
  /\ UNCHANGED <<ongoingOperations, schedVars, lastStart, stopsSettled, popupVars, monitorVars, pausedAt, lostSincePause>>

\* the 100 ms wait after createDocument is over: the message is forwarded
WaitResolve(c) ==
  /\ calls[c].pc = "wait"
  /\ Forward(c, calls[c])
  /\ delivered' = FALSE /\ firing' = NoFiring
  /\ UNCHANGED <<dhikrVars, popupVars, monitorVars, pausedAt, lostSincePause>>

\* startAudioMonitoring: clearInterval of the running timer and a new setInterval.  The
\* callbacks of the cleared timer that are still awaiting run on; they are marked as
\* belonging to a monitor that has been replaced.
Replaced(cs) ==
  [d \in Slots |-> IF cs[d].action = "monitorTick" THEN [cs[d] EXCEPT !.stale = TRUE] ELSE cs[d]]

\* handleAudioMessage after the reply: a successful playAudio starts the monitor
ReplyResolve(c) ==
  /\ calls[c].pc = "reply"
  /\ calls[c].action \in AudioActions
  /\ IF calls[c].result = "ok"
     THEN /\ IF calls[c].action = "playAudio"
             THEN calls' = Replaced([calls EXCEPT ![c] = [calls[c] EXCEPT !.pc = "done", !.answers = @ + 1]])
             ELSE calls' = [calls EXCEPT ![c] = [calls[c] EXCEPT !.pc = "done", !.answers = @ + 1]]
          /\ UNCHANGED evictTimers
          /\ audioMonitoringInterval' = (audioMonitoringInterval \/ calls[c].action = "playAudio")
     ELSE /\ Answer(c, calls[c], "AudioFailed")
          /\ UNCHANGED audioMonitoringInterval
  /\ delivered' = FALSE /\ firing' = NoFiring
  /\ UNCHANGED <<ongoingOperations, schedVars, lastStart, stopsSettled, popupVars, offscreenVars, autoplayEnabled, playsIssued, pausedAt, lostSincePause>>

\* ------------------------------------------------- audio: offscreen document
\* playAudio after the HEAD fetch, whatever its result: the source is set and the state
\* names the new track at position 0
HeadResolve(c) ==
  /\ calls[c].pc = "head"
  /\ audioPlayer' = [src |-> calls[c].sura, playing |-> FALSE, currentTime |-> 0, loaded |-> FALSE]
  /\ currentAudioState' = [currentAudioState EXCEPT !.audioUrl = calls[c].sura, !.suraId = calls[c].sura, !.currentTime = 0]
  /\ calls' = [calls EXCEPT ![c].pc = "load"]
  /\ delivered' = FALSE /\ firing' = NoFiring
  /\ UNCHANGED <<dhikrVars, popupVars, monitorVars, offscreenDoc, loadPending, audioState, pausedAt, lostSincePause>>

\* the load promise of playAudio settles: canplay / loadeddata / loadedmetadata, or
\* an error or the 15 s timeout; on success audioPlayer.play() is called
LoadResolve(c, ok) ==
  /\ calls[c].pc = "load"
  /\ IF ok /\ audioPlayer.src # 0
     THEN /\ audioPlayer' = [audioPlayer EXCEPT !.loaded = TRUE]
          /\ calls' = [calls EXCEPT ![c].pc = "play"]
          /\ UNCHANGED currentAudioState
     ELSE /\ currentAudioState' = [currentAudioState EXCEPT !.isPlaying = FALSE]
          /\ Reply(c, calls[c], "fail")
          /\ UNCHANGED audioPlayer
  /\ delivered' = FALSE /\ firing' = NoFiring
  /\ UNCHANGED <<dhikrVars, popupVars, monitorVars, offscreenDoc, loadPending, audioState, pausedAt, lostSincePause>>

\* the promise of audioPlayer.play() settles; on success isPlaying = true and
\* saveAudioState() writes the snapshot
PlayResolve(c, ok) ==
  /\ calls[c].pc = "play"
  /\ IF ok /\ audioPlayer.loaded
     THEN LET player == [audioPlayer EXCEPT !.playing = TRUE]
              st == Snapshot([currentAudioState EXCEPT !.isPlaying = TRUE], player)
          IN /\ audioPlayer' = player
             /\ currentAudioState' = st
             /\ audioState' = <<st>>
             /\ calls' = [calls EXCEPT ![c].pc = "save"]
     ELSE /\ currentAudioState' = [currentAudioState EXCEPT !.isPlaying = FALSE]
          /\ Reply(c, calls[c], "fail")
          /\ UNCHANGED <<audioPlayer, audioState>>
  /\ delivered' = FALSE /\ firing' = NoFiring
  /\ UNCHANGED <<dhikrVars, popupVars, monitorVars, offscreenDoc, loadPending, pausedAt, lostSincePause>>

\* await saveAudioState() is over.  resumeAudio after its reload re-applies the saved
\* position when the duration exceeds it, sets isPlaying and saves once more.
SaveResolve(c) ==
  /\ calls[c].pc = "save"
  /\ IF calls[c].action = "resumeAudio" /\ calls[c].reload
     THEN LET player == IF calls[c].time > 0 /\ PlayerDuration(audioPlayer) > calls[c].time
                        THEN [audioPlayer EXCEPT !.currentTime = calls[c].time]
                        ELSE audioPlayer
              st == Snapshot([currentAudioState EXCEPT !.isPlaying = TRUE], player)
          IN /\ audioPlayer' = player
             /\ currentAudioState' = st
             /\ audioState' = <<st>>
             /\ calls' = [calls EXCEPT ![c].reload = FALSE]
     ELSE /\ Reply(c, calls[c], "ok")
          /\ UNCHANGED <<audioPlayer, currentAudioState, audioState>>
  /\ delivered' = FALSE /\ firing' = NoFiring
  /\ UNCHANGED <<dhikrVars, popupVars, monitorVars, offscreenDoc, loadPending, pausedAt, lostSincePause>>

\* chrome.storage.local.get('audioState') of the document's start-up resolves: the
\* snapshot is merged over whatever the state holds by now
StartupLoad ==
  /\ offscreenDoc
  /\ loadPending
  /\ loadPending' = FALSE
  /\ currentAudioState' = IF audioState = << >> THEN currentAudioState ELSE audioState[1]
  /\ delivered' = FALSE /\ firing' = NoFiring
  /\ UNCHANGED <<calls, dhikrVars, popupVars, monitorVars, offscreenDoc, audioPlayer, audioState, pausedAt, lostSincePause>>

\* playback advances by one second; the timeupdate listener copies position and
\* duration and saves when its 10 s throttle allows
Advance(save) ==
  /\ offscreenDoc
  /\ audioPlayer.playing
  /\ audioPlayer.currentTime < TrackDuration
  /\ LET player == [audioPlayer EXCEPT !.currentTime = @ + 1]
         st == Snapshot(currentAudioState, player)
     IN /\ audioPlayer' = player
        /\ currentAudioState' = st
        /\ audioState' = IF save THEN <<st>> ELSE audioState
  /\ delivered' = FALSE /\ firing' = NoFiring
  /\ UNCHANGED <<calls, dhikrVars, popupVars, monitorVars, offscreenDoc, loadPending, pausedAt, lostSincePause>>

\* the ended event: isPlaying = false, saveAudioState(); the tracks a user starts are
\* listened to the end, a track the monitor moved on to is not
Ended ==
  /\ offscreenDoc
  /\ audioPlayer.playing
  /\ audioPlayer.currentTime = TrackDuration
  /\ currentAudioState.suraId \in Suras
  /\ LET player == [audioPlayer EXCEPT !.playing = FALSE]
         st == Snapshot([currentAudioState EXCEPT !.isPlaying = FALSE], player)
     IN /\ audioPlayer' = player
        /\ currentAudioState' = st
        /\ audioState' = <<st>>
  /\ playsIssued' = 0
  /\ delivered' = FALSE /\ firing' = NoFiring
  /\ UNCHANGED <<calls, dhikrVars, popupVars, offscreenDoc, loadPending, autoplayEnabled, audioMonitoringInterval, pausedAt, lostSincePause>>

\* a handler of the offscreen document is between two of its awaits
InOffscreen(c) == calls[c].pc \in {"head", "load", "play", "save"}

\* the browser closes the offscreen document, which it does once no audio has played
\* for a while: the element and the in-memory state are gone, the snapshot stays
OffscreenClosed ==
  /\ offscreenDoc
  /\ ~audioPlayer.playing
  /\ \A c \in Slots : ~InOffscreen(c)
  /\ offscreenDoc' = FALSE
  /\ loadPending' = FALSE
  /\ audioPlayer' = NoPlayer
  /\ currentAudioState' = NoAudio
  /\ delivered' = FALSE /\ firing' = NoFiring
  /\ UNCHANGED <<calls, dhikrVars, popupVars, monitorVars, audioState, pausedAt, lostSincePause>>

\* the popup's autoplay button writes userSelections.autoplayEnabled
ToggleAutoplay ==
  /\ autoplayEnabled' = ~autoplayEnabled
  /\ delivered' = FALSE /\ firing' = NoFiring
  /\ UNCHANGED <<calls, dhikrVars, popupVars, offscreenVars, audioMonitoringInterval, playsIssued, pausedAt, lostSincePause>>

\* ------------------------------------------------------ autoplay monitor
\* the setInterval callback of startAudioMonitoring up to await hasDocument()
MonitorFire ==
  /\ audioMonitoringInterval
  /\ HasFreeSlot
  /\ calls' = [calls EXCEPT ![FreeSlot] = [NewCall("monitorTick", 0, "missing", "none") EXCEPT !.pc = "hasDocument"]]
  /\ delivered' = FALSE /\ firing' = NoFiring
  /\ UNCHANGED <<dhikrVars, outsideVars>>

\* the tick after hasDocument(): without a document the monitor stops, otherwise
\* getAudioState is sent
MonitorHasDocument(c) ==
  /\ calls[c].pc = "hasDocument"
  /\ calls[c].action = "monitorTick"
  /\ IF offscreenDoc
     THEN /\ calls' = [calls EXCEPT ![c].pc = "getState"]
          /\ UNCHANGED audioMonitoringInterval
     ELSE /\ calls' = [calls EXCEPT ![c].pc = "done"]
          /\ audioMonitoringInterval' = FALSE
  /\ delivered' = FALSE /\ firing' = NoFiring
  /\ UNCHANGED <<dhikrVars, popupVars, offscreenVars, autoplayEnabled, playsIssued, pausedAt, lostSincePause>>

\* the tick with the reply to getAudioState: no session stops the monitor, an ended
\* track leads to the read of userSelections, anything else ends the tick
MonitorGetState(c) ==
  /\ calls[c].pc = "getState"
  /\ IF ~offscreenDoc
     THEN /\ calls' = [calls EXCEPT ![c].pc = "done"]
          /\ UNCHANGED audioMonitoringInterval
     ELSE IF currentAudioState.audioUrl = 0
     THEN /\ calls' = [calls EXCEPT ![c].pc = "done"]
          /\ audioMonitoringInterval' = FALSE
     ELSE IF EndOfTrack(currentAudioState)
     THEN /\ calls' = [calls EXCEPT ![c].pc = "selections", ![c].sura = currentAudioState.suraId]
          /\ UNCHANGED audioMonitoringInterval
     ELSE /\ calls' = [calls EXCEPT ![c].pc = "done"]
          /\ UNCHANGED audioMonitoringInterval
  /\ delivered' = FALSE /\ firing' = NoFiring
  /\ UNCHANGED <<dhikrVars, popupVars, offscreenVars, autoplayEnabled, playsIssued, pausedAt, lostSincePause>>

\* the tick with userSelections: autoplay on enters handleAutoplayNext up to its await
\* of getNextSuraAudioUrl, autoplay off stops the monitor
MonitorStorage(c) ==
  /\ calls[c].pc = "selections"
  /\ IF autoplayEnabled
     THEN /\ calls' = [calls EXCEPT ![c].pc = "url", ![c].sura = NextSura(calls[c].sura)]
          /\ UNCHANGED audioMonitoringInterval
     ELSE /\ calls' = [calls EXCEPT ![c].pc = "done"]
          /\ audioMonitoringInterval' = FALSE
  /\ delivered' = FALSE /\ firing' = NoFiring
  /\ UNCHANGED <<dhikrVars, popupVars, offscreenVars, autoplayEnabled, playsIssued, pausedAt, lostSincePause>>

\* getNextSuraAudioUrl settles: with a url playAudio is sent to the offscreen document,
\* a failure stops the monitor
MonitorUrl(c, ok) ==
  /\ calls[c].pc = "url"
  /\ IF ok /\ offscreenDoc
     THEN /\ PlayAudioBegin(c, calls[c])
          /\ playsIssued' = Min(playsIssued + 1, 2)
          /\ UNCHANGED audioMonitoringInterval
     ELSE /\ calls' = [calls EXCEPT ![c].pc = "done"]
          /\ audioMonitoringInterval' = FALSE
          /\ UNCHANGED <<offscreenVars, playsIssued>>
  /\ delivered' = FALSE /\ firing' = NoFiring
  /\ UNCHANGED <<dhikrVars, popupVars, autoplayEnabled, pausedAt, lostSincePause>>

\* handleAutoplayNext with the reply to its playAudio: a failure stops the monitor
MonitorReply(c) ==
  /\ calls[c].pc = "reply"
  /\ calls[c].action = "monitorTick"
  /\ calls' = [calls EXCEPT ![c].pc = "done"]
  /\ audioMonitoringInterval' = (audioMonitoringInterval /\ calls[c].result = "ok")
  /\ delivered' = FALSE /\ firing' = NoFiring
  /\ UNCHANGED <<dhikrVars, popupVars, offscreenVars, autoplayEnabled, playsIssued, pausedAt, lostSincePause>>

\* ------------------------------------------------- collaborator exceptions
\* await chrome.alarms.clear rejects: stopDhikrNotifications rethrows, the timer is
\* not cleared, and the catch block of handleDhikrMessage answers
ClearReject(c) ==
  /\ calls[c].pc = "clear"
  /\ Answer(c, calls[c], "Failed")
  /\ delivered' = FALSE /\ firing' = NoFiring
  /\ UNCHANGED <<ongoingOperations, schedVars, lastStart, stopsSettled, outsideVars>>

\* await chrome.alarms.create rejects: the catch block of startDhikrNotifications
\* drops the flag and rethrows, no alarm is registered
CreateReject(c) ==
  /\ calls[c].pc = "create"
  /\ dhikrNotificationsActive' = FALSE
  /\ alarm' = 0
  /\ Answer(c, calls[c], "Failed")
  /\ delivered' = FALSE /\ firing' = NoFiring
  /\ UNCHANGED <<ongoingOperations, dhikrTimeoutId, timeouts, dhikrIntervalSeconds, dhikrReminderMode, confirmTimers, lastStart, stopsSettled, outsideVars>>

\* ------------------------------------------------------ Firefox build
\* src/firefox/background/background.js: the audio engine lives in the background
\* page, audioPlayer is null (NoPlayer) until the first play and currentAudioState
\* is kept in memory only.

\* the response of handleAudioMessage: success with the state, whatever the branch did
FxAnswer(c, rec) == calls' = [calls EXCEPT ![c] = [rec EXCEPT !.pc = "done", !.result = "ok", !.answers = @ + 1]]

\* playAudio up to await audioPlayer.play(): new Audio(audioUrl) and a fresh state
FxPlayAudio(c, rec) ==
  /\ audioPlayer' = [src |-> rec.sura, playing |-> FALSE, currentTime |-> 0, loaded |-> FALSE]
  /\ currentAudioState' = [isPlaying |-> FALSE, currentTime |-> 0, duration |-> 0, audioUrl |-> rec.sura, suraId |-> rec.sura]
  /\ calls' = [calls EXCEPT ![c] = [rec EXCEPT !.pc = "fxplay"]]

\* pauseAudio: if (audioPlayer && !audioPlayer.paused)
FxPauseAudio(c, rec) ==
  /\ IF audioPlayer.src # 0 /\ audioPlayer.playing
     THEN /\ audioPlayer' = [audioPlayer EXCEPT !.playing = FALSE]
          /\ currentAudioState' = [currentAudioState EXCEPT !.isPlaying = FALSE]
     ELSE UNCHANGED <<audioPlayer, currentAudioState>>
  /\ FxAnswer(c, rec)

\* resumeAudio: if (audioPlayer && audioPlayer.paused) { play(); isPlaying = true };
\* play() on a track that has ended starts it again from 0
FxResumeAudio(c, rec) ==
  /\ IF audioPlayer.src # 0 /\ ~audioPlayer.playing
     THEN /\ audioPlayer' = [audioPlayer EXCEPT !.playing = TRUE, !.currentTime = IF @ = TrackDuration THEN 0 ELSE @]
          /\ currentAudioState' = [currentAudioState EXCEPT !.isPlaying = TRUE]
     ELSE UNCHANGED <<audioPlayer, currentAudioState>>
  /\ FxAnswer(c, rec)

\* seekAudio: if (audioPlayer) the element keeps the position inside the track, the
\* state takes the argument as it is
FxSeekAudio(c, rec) ==
  /\ IF audioPlayer.src # 0
     THEN /\ audioPlayer' = SetCurrentTime(audioPlayer, rec.time)
          /\ currentAudioState' = [currentAudioState EXCEPT !.currentTime = rec.time]
     ELSE UNCHANGED <<audioPlayer, currentAudioState>>
  /\ FxAnswer(c, rec)

\* getAudioState: updateCurrentTime copies position and duration if (audioPlayer)
FxUpdateCurrentTime(c, rec) ==
  /\ currentAudioState' = IF audioPlayer.src # 0 THEN Snapshot(currentAudioState, audioPlayer) ELSE currentAudioState
  /\ FxAnswer(c, rec)
  /\ UNCHANGED audioPlayer

\* handleAudioMessage of the Firefox build up to its first await or its response
FxRecvAudio(a, sura, time) ==
  /\ HasFreeSlot
  /\ LET c == FreeSlot
         rec == [NewCall(a, 0, "missing", "popup") EXCEPT !.sura = IF a = "playAudio" THEN sura ELSE 0, !.time = IF a = "seekAudio" THEN time ELSE 0]
     IN CASE a = "playAudio" -> FxPlayAudio(c, rec)
          [] a = "pauseAudio" -> FxPauseAudio(c, rec)
          [] a = "resumeAudio" -> FxResumeAudio(c, rec)
          [] a = "seekAudio" -> FxSeekAudio(c, rec)
          [] OTHER -> FxUpdateCurrentTime(c, rec)
  /\ pausedAt' = IF a = "pauseAudio" THEN PausePoint ELSE IF a = "getAudioState" THEN pausedAt ELSE -1
  /\ lostSincePause' = IF a = "getAudioState" THEN lostSincePause ELSE FALSE
  /\ delivered' = FALSE /\ firing' = NoFiring
  /\ UNCHANGED <<dhikrVars, popupVars, offscreenDoc, loadPending, audioState, monitorVars>>

\* await audioPlayer.play() settles in playAudio: the metadata is loaded and the
\* track plays, or the catch block rethrows and handleAudioMessage answers a failure
FxPlayResolve(c, ok) ==
  /\ calls[c].pc = "fxplay"
  /\ IF ok /\ audioPlayer.src = calls[c].sura
     THEN /\ audioPlayer' = [audioPlayer EXCEPT !.playing = TRUE, !.loaded = TRUE]
          /\ currentAudioState' = [currentAudioState EXCEPT !.isPlaying = TRUE, !.duration = TrackDuration]
          /\ Answer(c, calls[c], "ok")
     ELSE /\ Answer(c, calls[c], "AudioFailed")
          /\ UNCHANGED <<audioPlayer, currentAudioState>>
  /\ delivered' = FALSE /\ firing' = NoFiring
  /\ UNCHANGED <<ongoingOperations, schedVars, lastStart, stopsSettled, popupVars, offscreenDoc, loadPending, audioState, monitorVars, pausedAt, lostSincePause>>

\* playback advances by one second; the timeupdate listener copies the position
FxAdvance ==
  /\ audioPlayer.playing
  /\ audioPlayer.currentTime < TrackDuration
  /\ audioPlayer' = [audioPlayer EXCEPT !.currentTime = @ + 1]
  /\ currentAudioState' = [currentAudioState EXCEPT !.currentTime = audioPlayer.currentTime + 1]
  /\ delivered' = FALSE /\ firing' = NoFiring
  /\ UNCHANGED <<calls, dhikrVars, popupVars, offscreenDoc, loadPending, audioState, monitorVars, pausedAt, lostSincePause>>

\* the ended listener: isPlaying = false
FxEnded ==
  /\ audioPlayer.playing
  /\ audioPlayer.currentTime = TrackDuration
  /\ audioPlayer' = [audioPlayer EXCEPT !.playing = FALSE]
  /\ currentAudioState' = [currentAudioState EXCEPT !.isPlaying = FALSE]
  /\ delivered' = FALSE /\ firing' = NoFiring
  /\ UNCHANGED <<calls, dhikrVars, popupVars, offscreenDoc, loadPending, audioState, monitorVars, pausedAt, lostSincePause>>

\* the background page is unloaded and started again (the browser restarts, the
\* extension is reloaded): the script's variables are back at their initial values
FxContextLost ==
  /\ Quiet
  /\ audioPlayer' = NoPlayer
  /\ currentAudioState' = NoAudio
  /\ lostSincePause' = (pausedAt >= 0)
  /\ delivered' = FALSE /\ firing' = NoFiring
  /\ UNCHANGED <<calls, dhikrVars, popupVars, offscreenDoc, loadPending, audioState, monitorVars, pausedAt>>

\* ------------------------------------------------- service worker lifetime
\* the browser terminates the idle service worker and starts it again for the next
\* event: the script's variables are back at their initial values and its timeouts
\* are gone, the alarm, chrome.storage.local and the offscreen document stay
WorkerRestart ==
  /\ Quiet
  /\ ongoingOperations' = [k \in DhikrActions |-> -1]
  /\ evictTimers' = {}
  /\ dhikrTimeoutId' = 0
  /\ timeouts' = 0
  /\ dhikrIntervalSeconds' = 60
  /\ dhikrNotificationsActive' = FALSE
  /\ dhikrReminderMode' = "notification"
  /\ confirmTimers' = << >>
  /\ audioMonitoringInterval' = FALSE
  /\ delivered' = FALSE /\ firing' = NoFiring
  /\ lastStart' = NoArrival
  /\ stopsSettled' = 0
  /\ UNCHANGED <<calls, alarm, popupVars, offscreenVars, autoplayEnabled, playsIssued, pausedAt, lostSincePause>>

\* the popup's progress tracker has seen the selected track finished with autoplay on:
\* playNextSura selects getNextSuraId(currentSuraId) and playQuranAudio sends its playAudio
PlayNextSura ==
  /\ autoplayEnabled
  /\ ~currentAudioState.isPlaying
  /\ currentAudioState.currentTime >= currentAudioState.duration
  /\ currentAudioState.duration > 0
  /\ RecvAudio("playAudio", parseInt(getNextSuraId(toString(currentAudioState.suraId))), 0)

\* the other of the two events, onStartup and onInstalled, is dispatched right after
\* the first, whose listener still awaits storage.local.get: its listener runs up to
\* the same await
SecondListener(event) ==
  /\ HasFreeSlot
  /\ \E c \in Slots : calls[c].action \in {"onStartup", "onInstalled"} \ {event} /\ calls[c].pc = "storage"
  /\ \A c \in Slots : calls[c].action # event
  /\ ~dhikrNotificationsActive /\ confirmTimers = << >>
  /\ calls' = [calls EXCEPT ![FreeSlot] = [NewCall(event, 0, "missing", "none") EXCEPT !.pc = "storage"]]
  /\ delivered' = FALSE /\ firing' = NoFiring
  /\ UNCHANGED <<dhikrVars, outsideVars>>

\* toggleDhikrNotifications, the timeout of its Promise.race: one second after the
\* message was sent no response has come; the catch block restores the button and
\* nothing is saved; the response that arrives later is dropped
ToggleTimeout ==
  /\ toggleCall # 0
  /\ calls[toggleCall].pc # "done"
  /\ ongoingOperations[calls[toggleCall].action] >= ToggleTimeoutSec
  /\ toggleCall' = 0
  /\ delivered' = FALSE /\ firing' = NoFiring
  /\ UNCHANGED <<calls, ongoingOperations, evictTimers, schedVars, lastStart, stopsSettled>>
  /\ UNCHANGED <<intervalInput, toggleEnabled, modeSelect, dhikrSettings, audioVars>>

\* ----------------------------------------------------------------- time
\* the callback handleMessage passed to setTimeout: ongoingOperations.delete(operationKey)
EvictFire(e) ==
  /\ e \in evictTimers
  /\ e.rem = 0
  /\ evictTimers' = evictTimers \ {e}
  /\ ongoingOperations' = [ongoingOperations EXCEPT ![e.key] = -1]
  /\ delivered' = FALSE /\ firing' = NoFiring
  /\ UNCHANGED <<calls, schedVars, lastStart, stopsSettled>>
  /\ UNCHANGED outsideVars

\* one second passes; a timeout that is due runs before the clock moves on
Tick ==
  /\ \A e \in evictTimers : e.rem > 0
  /\ \A k \in 1..Len(confirmTimers) : confirmTimers[k].rem > 0
  /\ \/ \E k \in DhikrActions : ongoingOperations[k] \in 0..(DedupWindowSec - 1)
     \/ lastStart.age >= 0
     \/ evictTimers # {}
     \/ confirmTimers # << >>
  /\ ongoingOperations' = [k \in DhikrActions |-> IF ongoingOperations[k] < 0 THEN -1 ELSE Min(ongoingOperations[k] + 1, DedupWindowSec)]
  /\ evictTimers' = {[e EXCEPT !.rem = e.rem - 1] : e \in evictTimers}
  /\ confirmTimers' = [k \in 1..Len(confirmTimers) |-> [confirmTimers[k] EXCEPT !.rem = @ - 1]]
  /\ lastStart' = IF lastStart.age < 0 \/ lastStart.age + 1 >= DedupWindowSec THEN NoArrival ELSE [lastStart EXCEPT !.age = @ + 1]
  /\ delivered' = FALSE /\ firing' = NoFiring
  /\ UNCHANGED <<calls, dhikrTimeoutId, timeouts, dhikrIntervalSeconds, dhikrNotificationsActive, dhikrReminderMode, alarm, stopsSettled>>
  /\ UNCHANGED outsideVars

\* the steps every specification shares: awaited promises resolving, timers, the clock
PopupStep ==
  \/ \E c \in Slots : Return(c)
  \/ \E c \in Slots : ClearResolve(c)
  \/ \E c \in Slots : CreateResolve(c)
  \/ AlarmFire
  \/ \E named \in BOOLEAN : TimeoutFire(named)
  \/ ConfirmFire
  \/ \E e \in evictTimers : EvictFire(e)
  \/ Tick

\* the same with the permission query of the notification mode
Step ==
  \/ \E c \in Slots, level \in PermissionLevels : PermResolve(c, level)
  \/ PopupStep

\* start and stop from a client that awaits every response
SchedNext ==
  \/ Quiet /\ UNCHANGED outsideVars /\ \E i \in {59, 60}, m \in Modes : RecvStart(i, m)
  \/ Quiet /\ UNCHANGED outsideVars /\ RecvStop
  \/ Step

SpecSched == Init /\ [][SchedNext]_vars

\* start in popup mode and updateDhikrInterval with the intervals around the
\* validation bounds, from a client that awaits every response
ValidNext ==
  \/ Quiet /\ UNCHANGED outsideVars /\ \E i \in BoundaryIntervals : RecvStart(i, "popup")
  \/ Quiet /\ UNCHANGED outsideVars /\ \E i \in BoundaryIntervals : RecvUpdateInterval(i)
  \/ PopupStep

SpecValid == Init /\ [][ValidNext]_vars

\* the popup's reminder controls, used by a user who lets the router's ledger empty
\* between two actions, and restarts of the browser
StartupNext ==
  \/ Calm /\ ToggleOn
  \/ Calm /\ ToggleOff
  \/ Calm /\ \E v \in InputValues : InputInterval(v)
  \/ Calm /\ \E m \in Modes : ChangeMode(m)
  \/ \E c \in Slots : ToggleReturn(c)
  \/ \E event \in {"onStartup", "onInstalled"} : BrowserStartup(event)
  \/ \E c \in Slots : StorageResolve(c)
  \/ Step

SpecStartup == Init /\ [][StartupNext]_vars

\* the steps of the router, the offscreen document and the host that bring the
\* handler in slot c to its response
Resolve(c) ==
  \/ \E level \in PermissionLevels : PermResolve(c, level)
  \/ ClearResolve(c)
  \/ ClearReject(c)
  \/ CreateResolve(c)
  \/ CreateReject(c)
  \/ HasDocumentResolve(c)
  \/ \E ok \in BOOLEAN : CreateDocumentResolve(c, ok)
  \/ WaitResolve(c)
  \/ HeadResolve(c)
  \/ \E ok \in BOOLEAN : LoadResolve(c, ok)
  \/ \E ok \in BOOLEAN : PlayResolve(c, ok)
  \/ SaveResolve(c)
  \/ ReplyResolve(c)

\* the reminders have not been used, or everything they left has been undone
DhikrUnused ==
  /\ \A k \in DhikrActions : ongoingOperations[k] = -1
  /\ evictTimers = {}
  /\ ~dhikrNotificationsActive
  /\ alarm = 0
  /\ timeouts = 0
  /\ confirmTimers = << >>
  /\ lastStart = NoArrival

\* no handler is running, the audio player has not been used and the ledger holds
\* no entry of another action than key
QuietFor(key) ==
  /\ Quiet
  /\ ~offscreenDoc /\ audioState = << >> /\ ~audioMonitoringInterval
  /\ \A k \in DhikrActions \ {key} : ongoingOperations[k] = -1

\* every message of the vocabulary, from a client that awaits every response, lets
\* the ledger forget an action before it sends another one, and turns to the audio
\* player when the reminders are off; every promise the handlers await settles, with
\* either outcome
RouterNext ==
  \/ QuietFor("startDhikrNotifications") /\ UNCHANGED outsideVars /\ \E i \in {4, 60} : RecvStart(i, "notification")
  \/ QuietFor("stopDhikrNotifications") /\ UNCHANGED outsideVars /\ RecvStop
  \/ QuietFor("updateDhikrInterval") /\ UNCHANGED outsideVars /\ \E i \in {4, 60} : RecvUpdateInterval(i)
  \/ QuietFor("updateDhikrMode") /\ UNCHANGED outsideVars /\ \E m \in {"popup", "other"} : RecvUpdateMode(m)
  \/ Quiet /\ RecvPing("popup")
  \/ Quiet /\ RecvFromOffscreen("getAudioState")
  \/ Quiet /\ DhikrUnused /\ \E a \in AudioActions : RecvAudio(a, LastSura, 1)
  \/ \E c \in Slots : Resolve(c)
  \/ StartupLoad
  \/ OffscreenClosed
  \/ \E c \in Slots : Return(c)
  \/ ConfirmFire
  \/ \E e \in evictTimers : EvictFire(e)
  \/ Tick

SpecRouter == Init /\ [][RouterNext]_vars /\ \A c \in Slots : WF_vars(Resolve(c))

\* a listener who starts tracks and switches autoplay, the offscreen document with a
\* network that delivers every track, and the autoplay monitor
AutoplayNext ==
  \/ Quiet /\ \E sura \in Suras : RecvAudio("playAudio", sura, 0)
  \/ Quiet /\ ToggleAutoplay
  \/ \E c \in Slots : HasDocumentResolve(c)
  \/ \E c \in Slots : CreateDocumentResolve(c, TRUE)
  \/ \E c \in Slots : WaitResolve(c)
  \/ \E c \in Slots : HeadResolve(c)
  \/ \E c \in Slots : LoadResolve(c, TRUE)
  \/ \E c \in Slots : PlayResolve(c, TRUE)
  \/ \E c \in Slots : SaveResolve(c)
  \/ \E c \in Slots : ReplyResolve(c)
  \/ \E c \in Slots : Return(c)
  \/ StartupLoad
  \/ Advance(FALSE)
  \/ Ended
  \/ MonitorFire
  \/ \E c \in Slots : MonitorHasDocument(c)
  \/ \E c \in Slots : MonitorGetState(c)
  \/ \E c \in Slots : MonitorStorage(c)
  \/ \E c \in Slots : MonitorUrl(c, TRUE)
  \/ \E c \in Slots : MonitorReply(c)

SpecAutoplay == Init /\ [][AutoplayNext]_vars

\* Firefox build: the audio controls used by a listener who awaits every response,
\* with a network that delivers every track, and reloads of the background page
FirefoxNext ==
  \/ Quiet /\ \E a \in AudioActions, sura \in Suras, time \in SeekTimes : FxRecvAudio(a, sura, time)
  \/ \E c \in Slots, ok \in BOOLEAN : FxPlayResolve(c, ok)
  \/ \E c \in Slots : Return(c)
  \/ FxAdvance
  \/ FxEnded
  \/ FxContextLost

SpecFirefox == Init /\ [][FirefoxNext]_vars

\* start, updateDhikrInterval and stop with alarm-sized intervals from a client that
\* awaits every response and lets the ledger empty, and restarts of the idle service worker
UpdateNext ==
  \/ Calm /\ UNCHANGED outsideVars /\ \E m \in Modes : RecvStart(60, m)
  \/ Calm /\ UNCHANGED outsideVars /\ \E i \in {60, 3600} : RecvUpdateInterval(i)
  \/ Calm /\ UNCHANGED outsideVars /\ RecvStop
  \/ WorkerRestart
  \/ \E c \in Slots, level \in PermissionLevels : PermResolve(c, level)
  \/ \E c \in Slots : Return(c)
  \/ \E c \in Slots : ClearResolve(c)
  \/ \E c \in Slots : CreateResolve(c)
  \/ AlarmFire
  \/ ConfirmFire
  \/ \E e \in evictTimers : EvictFire(e)
  \/ Tick

SpecUpdate == Init /\ [][UpdateNext]_vars

\* the audio player has not been used
AudioUnused ==
  /\ ~offscreenDoc /\ audioState = << >> /\ ~audioMonitoringInterval
  /\ \A c \in Slots : calls[c].action \notin AudioActions

\* messages of the nine deduplicable actions that arrive while earlier ones are still
\* being handled; the clock does not advance, so every message of a behaviour arrives
\* inside the cool-down window of every earlier one
DedupNext ==
  \/ AudioUnused /\ UNCHANGED outsideVars /\ \E m \in Modes : RecvStart(60, m)
  \/ AudioUnused /\ UNCHANGED outsideVars /\ RecvStop
  \/ AudioUnused /\ UNCHANGED outsideVars /\ RecvUpdateInterval(60)
  \/ AudioUnused /\ UNCHANGED outsideVars /\ RecvUpdateMode("popup")
  \/ DhikrUnused /\ \E a \in AudioActions : RecvAudio(a, LastSura, 1)
  \/ \E c \in Slots : Resolve(c)
  \/ \E c \in Slots : Return(c)

SpecDedup == Init /\ [][DedupNext]_vars

\* the branches of handleMessage that answer without dispatching: pings from every
\* origin, unknown actions from the popup and from content scripts, and messages of
\* the offscreen document, at any moment among a reminder start and a state query
\* that are still being handled and ledger entries of every age
FrontNext ==
  \/ \E o \in Origins : RecvPing(o)
  \/ \E x \in UnknownActions, o \in UIOrigins : RecvUnknown(x, o)
  \/ \E a \in {"startDhikrNotifications", "playAudio", "doTheImpossible"} : RecvFromOffscreen(a)
  \/ AudioUnused /\ UNCHANGED outsideVars /\ RecvStart(60, "popup")
  \/ DhikrUnused /\ RecvAudio("getAudioState", 0, 0)
  \/ \E c \in Slots : ClearResolve(c)
  \/ \E c \in Slots : CreateResolve(c)
  \/ \E c \in Slots : HasDocumentResolve(c)
  \/ \E c \in Slots, ok \in BOOLEAN : CreateDocumentResolve(c, ok)
  \/ \E c \in Slots : WaitResolve(c)
  \/ \E c \in Slots : ReplyResolve(c)
  \/ \E c \in Slots : Return(c)
  \/ AlarmFire
  \/ ConfirmFire
  \/ \E e \in evictTimers : EvictFire(e)
  \/ Tick

SpecFront == Init /\ [][FrontNext]_vars

\* a playAudio of track t is being handled, or the track is playing
InFlightOrPlaying(t) ==
  \/ \E c \in Slots : calls[c].action = "playAudio" /\ calls[c].sura = t /\ calls[c].pc # "done"
  \/ audioPlayer.playing /\ audioPlayer.src = t

\* the popup asks for track A, then for track B while A is still being loaded or is
\* playing, and reads the state while a track is being loaded; every promise of the
\* router and of the offscreen document settles in any order, with either outcome
PlayNext ==
  \/ Quiet /\ DhikrUnused /\ RecvAudio("playAudio", TrackA, 0)
  \/ /\ InFlightOrPlaying(TrackA)
     /\ \A c \in Slots : calls[c].sura # TrackB
     /\ RecvAudio("playAudio", TrackB, 0)
  \/ /\ \E c \in Slots : calls[c].action = "playAudio" /\ calls[c].pc = "load"
     /\ \A c \in Slots : calls[c].action # "getAudioState"
     /\ RecvAudio("getAudioState", 0, 0)
  \/ \E c \in Slots : HasDocumentResolve(c)
  \/ \E c \in Slots, ok \in BOOLEAN : CreateDocumentResolve(c, ok)
  \/ \E c \in Slots : WaitResolve(c)
  \/ \E c \in Slots : HeadResolve(c)
  \/ \E c \in Slots, ok \in BOOLEAN : LoadResolve(c, ok)
  \/ \E c \in Slots, ok \in BOOLEAN : PlayResolve(c, ok)
  \/ \E c \in Slots : SaveResolve(c)
  \/ \E c \in Slots : ReplyResolve(c)
  \/ StartupLoad
  \/ \E c \in Slots : Return(c)

SpecPlay == Init /\ [][PlayNext]_vars

\* one listener at a time: the popup sends every audio command and awaits each
\* answer; the offscreen document is always created when asked for, its load and
\* play promises settle with either outcome, the track advances and ends, and the
\* browser closes the document when it is idle and no command is being handled
SessionNext ==
  \/ Quiet /\ \E a \in AudioActions, time \in SeekTimes : RecvAudio(a, LastSura, time)
  \/ \E c \in Slots : HasDocumentResolve(c)
  \/ \E c \in Slots : CreateDocumentResolve(c, TRUE)
  \/ \E c \in Slots : WaitResolve(c)
  \/ \E c \in Slots : HeadResolve(c)
  \/ \E c \in Slots, ok \in BOOLEAN : LoadResolve(c, ok)
  \/ \E c \in Slots, ok \in BOOLEAN : PlayResolve(c, ok)
  \/ \E c \in Slots : SaveResolve(c)
  \/ \E c \in Slots : ReplyResolve(c)
  \/ \E c \in Slots : Return(c)
  \/ StartupLoad
  \/ \E save \in BOOLEAN : Advance(save)
  \/ Ended
  \/ Quiet /\ OffscreenClosed

SpecSession == Init /\ [][SessionNext]_vars

\* the autoplay monitor over a resource that may fail: the popup plays the last track,
\* and the url resolution, the load and the play of the next one may each fail; the
\* ticks are followed while the session is the track the popup started
AutoFailNext ==
  \/ Quiet /\ RecvAudio("playAudio", TrackB, 0)
  \/ Quiet /\ ToggleAutoplay
  \/ \E c \in Slots : HasDocumentResolve(c)
  \/ \E c \in Slots : CreateDocumentResolve(c, TRUE)
  \/ \E c \in Slots : WaitResolve(c)
  \/ \E c \in Slots : HeadResolve(c)
  \/ \E c \in Slots, ok \in BOOLEAN : LoadResolve(c, ok)
  \/ \E c \in Slots, ok \in BOOLEAN : PlayResolve(c, ok)
  \/ \E c \in Slots : SaveResolve(c)
  \/ \E c \in Slots : ReplyResolve(c)
  \/ \E c \in Slots : Return(c)
  \/ StartupLoad
  \/ Advance(FALSE)
  \/ Ended
  \/ Quiet /\ OffscreenClosed
  \/ currentAudioState.suraId \in {0, TrackB} /\ MonitorFire
  \/ \E c \in Slots : MonitorHasDocument(c)
  \/ \E c \in Slots : MonitorGetState(c)
  \/ \E c \in Slots : MonitorStorage(c)
  \/ \E c \in Slots, ok \in BOOLEAN : MonitorUrl(c, ok)
  \/ \E c \in Slots : MonitorReply(c)

SpecAutoFail == Init /\ [][AutoFailNext]_vars

\* the next-track computation: some track of the catalogue has been played to its end
\* with autoplay on and the monitor running; the monitor's tick and the popup's
\* progress tracker each compute the track to move on to
WrapInit ==
  /\ calls = [c \in Slots |-> IdleCall]
  /\ ongoingOperations = [k \in DhikrActions |-> -1]
  /\ evictTimers = {}
  /\ dhikrTimeoutId = 0
  /\ timeouts = 0
  /\ dhikrIntervalSeconds = 60
  /\ dhikrNotificationsActive = FALSE
  /\ dhikrReminderMode = "notification"
  /\ alarm = 0
  /\ confirmTimers = << >>
  /\ delivered = FALSE
  /\ firing = NoFiring
  /\ lastStart = NoArrival
  /\ stopsSettled = 0
  /\ intervalInput = 60
  /\ toggleEnabled = FALSE
  /\ modeSelect = "notification"
  /\ toggleCall = 0
  /\ dhikrSettings = NoSettings
  /\ offscreenDoc = TRUE
  /\ loadPending = FALSE
  /\ \E n \in 1..LastSura :
       LET st == [isPlaying |-> FALSE, currentTime |-> TrackDuration, duration |-> TrackDuration, audioUrl |-> n, suraId |-> n]
       IN /\ audioPlayer = [src |-> n, playing |-> FALSE, currentTime |-> TrackDuration, loaded |-> TRUE]
          /\ currentAudioState = st
          /\ audioState = <<st>>
  /\ autoplayEnabled = TRUE
  /\ audioMonitoringInterval = TRUE
  /\ playsIssued = 0
  /\ pausedAt = -1
  /\ lostSincePause = FALSE

WrapNext ==
  \/ Quiet /\ MonitorFire
  \/ \E c \in Slots : MonitorHasDocument(c)
  \/ \E c \in Slots : MonitorGetState(c)
  \/ \E c \in Slots : MonitorStorage(c)
  \/ \E c \in Slots : MonitorUrl(c, FALSE)
  \/ (\A c \in Slots : calls[c].action # "playAudio") /\ PlayNextSura
  \/ \E c \in Slots : HasDocumentResolve(c)
  \/ \E c \in Slots : HeadResolve(c)
  \/ \E c \in Slots : LoadResolve(c, FALSE)
  \/ \E c \in Slots : ReplyResolve(c)
  \/ \E c \in Slots : Return(c)

SpecWrap == WrapInit /\ [][WrapNext]_vars

\* a launch on which both onStartup and onInstalled fire; chrome.storage.local holds
\* what a user of the popup left there: nothing, or reminders on or off with no
\* interval (0) or one served by the alarm or by the fine timer, and one of the modes
PersistedSettings == {NoSettings} \cup {SaveDhikrSettings(e, i, m) : e \in BOOLEAN, i \in {0, 30, 60}, m \in Modes}

LaunchInit ==
  /\ calls = [c \in Slots |-> IdleCall]
  /\ ongoingOperations = [k \in DhikrActions |-> -1]
  /\ evictTimers = {}
  /\ dhikrTimeoutId = 0
  /\ timeouts = 0
  /\ dhikrIntervalSeconds = 60
  /\ dhikrNotificationsActive = FALSE
  /\ dhikrReminderMode = "notification"
  /\ alarm = 0
  /\ confirmTimers = << >>
  /\ delivered = FALSE
  /\ firing = NoFiring
  /\ lastStart = NoArrival
  /\ stopsSettled = 0
  /\ intervalInput = 60
  /\ toggleEnabled = FALSE
  /\ modeSelect = "notification"
  /\ toggleCall = 0
  /\ dhikrSettings \in PersistedSettings
  /\ offscreenDoc = FALSE
  /\ loadPending = FALSE
  /\ audioPlayer = NoPlayer
  /\ currentAudioState = NoAudio
  /\ audioState = << >>
  /\ autoplayEnabled = FALSE
  /\ audioMonitoringInterval = FALSE
  /\ playsIssued = 0
  /\ pausedAt = -1
  /\ lostSincePause = FALSE

LaunchNext ==
  \/ \E event \in {"onStartup", "onInstalled"} : BrowserStartup(event)
  \/ \E event \in {"onStartup", "onInstalled"} : SecondListener(event)
  \/ \E c \in Slots : StorageResolve(c)
  \/ \E c \in Slots, level \in PermissionLevels : PermResolve(c, level)
  \/ \E c \in Slots : ClearResolve(c)
  \/ \E c \in Slots : CreateResolve(c)
  \/ \E c \in Slots : Return(c)
  \/ AlarmFire
  \/ \E named \in BOOLEAN : TimeoutFire(named)
  \/ ConfirmFire
  \/ Tick

SpecLaunch == LaunchInit /\ [][LaunchNext]_vars

\* start and stop from a client that awaits every response and lets the ledger empty;
\* every promise the scheduler awaits settles, the alarm fires every period and a
\* pending timer fires when it is due
RecurNext ==
  \/ Calm /\ UNCHANGED outsideVars /\ \E i \in {30, 60}, m \in Modes : RecvStart(i, m)
  \/ Calm /\ UNCHANGED outsideVars /\ RecvStop
  \/ \E c \in Slots, level \in PermissionLevels : PermResolve(c, level)
  \/ \E c \in Slots : ClearResolve(c)
  \/ \E c \in Slots : CreateResolve(c)
  \/ \E c \in Slots : Return(c)
  \/ AlarmFire
  \/ \E named \in BOOLEAN : TimeoutFire(named)
  \/ ConfirmFire
  \/ \E e \in evictTimers : EvictFire(e)
  \/ Tick

SpecRecur ==
  /\ Init /\ [][RecurNext]_vars
  /\ \A c \in Slots : WF_vars((\E level \in PermissionLevels : PermResolve(c, level)) \/ ClearResolve(c) \/ CreateResolve(c))
  /\ WF_vars(AlarmFire)
  /\ \A named \in BOOLEAN : WF_vars(TimeoutFire(named))

\* the popup's reminder controls with the request timeout of the toggle, the interval
\* field also used while the router still remembers the last update
PersistNext ==
  \/ Calm /\ ToggleOn
  \/ Calm /\ ToggleOff
  \/ Quiet /\ \E v \in {30, 60} : InputInterval(v)
  \/ Calm /\ \E m \in Modes : ChangeMode(m)
  \/ \E c \in Slots : ToggleReturn(c)
  \/ ToggleTimeout
  \/ Step

SpecPersist == Init /\ [][PersistNext]_vars

\* start messages from clients that do not wait for the response of the previous
\* one; the handlers take any time to settle their awaits
LedgerNext ==
  \/ UNCHANGED outsideVars /\ RecvStart(60, "popup")
  \/ \E c \in Slots : Return(c)
  \/ \E c \in Slots : ClearResolve(c)
  \/ \E c \in Slots : CreateResolve(c)
  \/ ConfirmFire
  \/ \E e \in evictTimers : EvictFire(e)
  \/ Tick

SpecLedger == Init /\ [][LedgerNext]_vars

\* reminders are on, started with interval 60 in notification mode, and everything that
\* start left behind has settled: its confirmation has fired, its ledger entry is evicted
ArmedInit ==
  /\ calls = [c \in Slots |-> IdleCall]
  /\ ongoingOperations = [k \in DhikrActions |-> -1]
  /\ evictTimers = {}
  /\ dhikrTimeoutId = 0
  /\ timeouts = 0
  /\ dhikrIntervalSeconds = 60
  /\ dhikrNotificationsActive = TRUE
  /\ dhikrReminderMode = "notification"
  /\ alarm = 60
  /\ confirmTimers = << >>
  /\ delivered = FALSE
  /\ firing = NoFiring
  /\ lastStart = NoArrival
  /\ stopsSettled = 0
  /\ intervalInput = 60
  /\ toggleEnabled = TRUE
  /\ modeSelect = "notification"
  /\ toggleCall = 0
  /\ dhikrSettings = SaveDhikrSettings(TRUE, 60, "notification")
  /\ offscreenDoc = FALSE
  /\ loadPending = FALSE
  /\ audioPlayer = NoPlayer
  /\ currentAudioState = NoAudio
  /\ audioState = << >>
  /\ autoplayEnabled = FALSE
  /\ audioMonitoringInterval = FALSE
  /\ playsIssued = 0
  /\ pausedAt = -1
  /\ lostSincePause = FALSE

\* one startDhikrNotifications and one updateDhikrInterval that arrive within the same
\* second, in either order, while reminders are on: the two actions have different
\* ledger keys, so both are dispatched and their handlers overlap at their awaits
OverlapNext ==
  \/ UNCHANGED outsideVars /\ \E i \in {30, 60}, m \in Modes : RecvStart(i, m)
  \/ UNCHANGED outsideVars /\ \E i \in {30, 60} : RecvUpdateInterval(i)
  \/ \E c \in Slots, level \in PermissionLevels : PermResolve(c, level)
  \/ \E c \in Slots : ClearResolve(c)
  \/ \E c \in Slots : CreateResolve(c)
  \/ \E c \in Slots : Return(c)

SpecOverlap == ArmedInit /\ [][OverlapNext]_vars

\* the same client with a chrome.alarms.create that may reject
FailNext ==
  \/ RecurNext
  \/ \E c \in Slots : CreateReject(c)

SpecFail == Init /\ [][FailNext]_vars

\* starts with every mode payload and mode updates from a client that awaits every
\* response and lets the ledger empty; the alarm fires every period
ModeNext ==
  \/ Calm /\ UNCHANGED outsideVars /\ \E m \in ModePayloads : RecvStart(60, m)
  \/ Calm /\ UNCHANGED outsideVars /\ \E m \in ModePayloads : RecvUpdateMode(m)
  \/ \E c \in Slots, level \in PermissionLevels : PermResolve(c, level)
  \/ \E c \in Slots : ClearResolve(c)
  \/ \E c \in Slots : CreateResolve(c)
  \/ \E c \in Slots : Return(c)
  \/ AlarmFire
  \/ ConfirmFire
  \/ \E e \in evictTimers : EvictFire(e)
  \/ Tick

SpecMode == Init /\ [][ModeNext]_vars

\* a listener who awaits every response, a network that delivers the track, and a
\* browser that is closed and started again at any moment, also while a track plays
RecycleNext ==
  \/ Quiet /\ \E a \in {"playAudio", "pauseAudio", "getAudioState"} : RecvAudio(a, LastSura, 0)
  \/ \E c \in Slots : HasDocumentResolve(c)
  \/ \E c \in Slots : CreateDocumentResolve(c, TRUE)
  \/ \E c \in Slots : WaitResolve(c)
  \/ \E c \in Slots : HeadResolve(c)
  \/ \E c \in Slots : LoadResolve(c, TRUE)
  \/ \E c \in Slots : PlayResolve(c, TRUE)
  \/ \E c \in Slots : SaveResolve(c)
  \/ \E c \in Slots : ReplyResolve(c)
  \/ \E c \in Slots : Return(c)
  \/ StartupLoad
  \/ \E save \in BOOLEAN : Advance(save)
  \/ Ended
  \/ BrowserStartup("onStartup")
  \/ \E c \in Slots : StorageResolve(c)

SpecRecycle == Init /\ [][RecycleNext]_vars

\* ================================================================ claims
\* the handler in slot c has answered a message that the router dispatched
Dispatched(c) == calls[c].pc = "done" /\ calls[c].result # "OperationInProgress"

\* a startDhikrNotifications message arrives in this step
StartArrives == \E c \in Slots : calls[c].pc = "idle" /\ calls'[c].action = "startDhikrNotifications"

\* C1: a startDhikrNotifications message that arrives less than 2 seconds after one
\* the router dispatched is answered OperationInProgress, so of two starts inside
\* the window exactly one is dispatched.
C1_DedupWindow == [][StartArrives /\ lastStart.age >= 0 /\ ~lastStart.dup => lastStart'.dup]_vars

\* the handler in slot c was started by a message of the router's vocabulary
RecognizedCall(c) == calls[c].action \in Recognized

\* C2: every message with a recognized action is answered: its handler never calls
\* sendResponse twice, has called it exactly once when it is over, and is over at
\* last, whether it succeeds, fails validation, is rejected as a duplicate, meets an
\* exception of a collaborator or gets a failed or missing reply from the audio context
C2_ResponseGuarantee ==
  /\ [](\A c \in Slots : calls[c].answers <= 1)
  /\ [](\A c \in Slots : RecognizedCall(c) /\ calls[c].pc = "done" => calls[c].answers = 1)
  /\ \A c \in Slots : (RecognizedCall(c) /\ calls[c].pc # "done") ~> (calls[c].pc = "done" /\ calls[c].answers = 1)

\* C2 witness: a resumeAudio whose forward met a failure in the audio context has been
\* answered once with a failure
C2_AudioFailureAnswered ==
  \E c \in Slots : calls[c].action = "resumeAudio" /\ calls[c].pc = "done" /\ calls[c].result = "AudioFailed" /\ calls[c].answers = 1

\* C3: for one end-of-track occurrence with autoplay on, the monitor issues exactly
\* one playAudio, for the wrap-computed next track, however many of its 2-second ticks
\* elapse until that play has completed; with autoplay off the tick issues no play
\* and stops the monitor
C3_OnePlayPerTrackEnd ==
  /\ [](playsIssued <= 1)
  /\ [][\A c \in Slots : calls[c].pc = "selections" /\ calls'[c].pc # "selections" =>
          IF autoplayEnabled
          THEN calls'[c].pc = "url" /\ calls'[c].sura = NextSura(calls[c].sura)
          ELSE calls'[c].pc = "done" /\ ~audioMonitoringInterval' /\ playsIssued' = playsIssued]_vars

\* the Firefox build answers a resumeAudio message in this step
FxResumeAnswered(c) == calls[c].pc = "idle" /\ calls'[c].action = "resumeAudio" /\ calls'[c].pc = "done"

\* C4: a resume that follows a successful play, a pause at position P and the loss of
\* the context that hosts the audio engine leaves the session on its track with
\* isPlaying = true and the position within one second of P
C4_ResumePrecision ==
  [][\A c \in Slots : FxResumeAnswered(c) /\ pausedAt >= 0 /\ lostSincePause =>
       /\ currentAudioState'.isPlaying
       /\ currentAudioState'.audioUrl # 0
       /\ currentAudioState'.currentTime >= pausedAt - 1
       /\ currentAudioState'.currentTime <= pausedAt + 1]_vars

\* C5: once a stop has been answered with success and no start has been issued
\* since, no step delivers a reminder.
C5_StopSilences == stopsSettled > 0 => ~delivered

C7_ArmedIntervalValid == alarm # 0 \/ timeouts > 0 => dhikrIntervalSeconds >= 5 /\ dhikrIntervalSeconds <= 3600

\* C8: a start in notification mode reads the permission before it arms and is
\* answered PermissionDenied iff the level is denied, creating no alarm, fine timer or
\* confirmation timer; a start in popup mode never reads the permission and arms.
C8_PermissionBeforeArming ==
  /\ [](\A c \in Slots :
          calls[c].action = "startDhikrNotifications" /\ calls[c].pc \in {"clear", "create", "done"} /\ calls[c].result \notin {"OperationInProgress", "InvalidInput"} =>
            IF calls[c].mode = "notification"
            THEN /\ calls[c].perm # "unread"
                 /\ (calls[c].perm = "denied") = (calls[c].result = "PermissionDenied")
                 /\ calls[c].perm = "denied" => calls[c].pc = "done"
            ELSE /\ calls[c].perm = "unread"
                 /\ calls[c].pc = "done" => calls[c].result = "ok")
  /\ [][\A c \in Slots : calls[c].result # "PermissionDenied" /\ calls'[c].result = "PermissionDenied" =>
          /\ alarm' = alarm
          /\ timeouts' = timeouts
          /\ dhikrTimeoutId' = dhikrTimeoutId
          /\ confirmTimers' = confirmTimers]_vars

\* C8 witness: a notification-mode start was refused for a denied permission while nothing was armed
C8_DeniedStart ==
  \E c \in Slots :
    /\ calls[c].action = "startDhikrNotifications" /\ calls[c].mode = "notification"
    /\ calls[c].pc = "done" /\ calls[c].perm = "denied" /\ calls[c].result = "PermissionDenied"
    /\ calls[c].prior = "idle" /\ alarm = 0 /\ timeouts = 0 /\ confirmTimers = << >>

\* C9: after a start(i, m) that ran to completion exactly one primitive is armed with
\* the new parameters: the alarm with period i when i >= 60, one fine timer when i < 60.
C9_StartRearms ==
  \A c \in Slots :
    calls[c].action = "startDhikrNotifications" /\ calls[c].pc = "done" /\ calls[c].result = "ok" =>
      /\ dhikrNotificationsActive
      /\ dhikrIntervalSeconds = calls[c].interval
      /\ dhikrReminderMode = calls[c].mode
      /\ IF calls[c].interval >= 60
         THEN alarm = calls[c].interval /\ timeouts = 0
         ELSE alarm = 0 /\ timeouts = 1 /\ dhikrTimeoutId = 1

\* C9 witness: a start with 60 seconds completed where a fine timer was armed
C9_TimerReplacedByAlarm ==
  \E c \in Slots :
    /\ calls[c].action = "startDhikrNotifications" /\ calls[c].pc = "done" /\ calls[c].result = "ok"
    /\ calls[c].prior = "timer" /\ calls[c].interval = 60 /\ alarm = 60 /\ timeouts = 0

UpdateArrives == \E c \in Slots : calls[c].pc = "idle" /\ calls'[c].action = "updateDhikrInterval"

\* C11: an updateDhikrInterval that arrives while no reminder timer is armed changes
\* nothing of the scheduler; one that arrives while a reminder timer is armed (also
\* when only the alarm outlived the worker's variables) and is answered with success
\* leaves the scheduler as stop() and start(newInterval, currentMode) leave it:
\* active, with the new interval and the alarm at the new period
C11_UpdateIsRestart ==
  /\ [][UpdateArrives /\ Primitive = "idle" => UNCHANGED schedVars]_vars
  /\ [](\A c \in Slots :
          /\ calls[c].action = "updateDhikrInterval" /\ Dispatched(c)
          /\ calls[c].result = "ok" /\ calls[c].prior # "idle"
          => /\ dhikrNotificationsActive
             /\ dhikrIntervalSeconds = calls[c].interval
             /\ dhikrReminderMode = calls[c].mode
             /\ alarm = calls[c].interval)

\* C12: of two messages of the same action other than ping that are inside one
\* cool-down window, the later one is rejected with OperationInProgress; this holds
\* for the four reminder actions and for playAudio, pauseAudio, resumeAudio,
\* seekAudio and getAudioState alike
C12_EveryActionDeduplicated ==
  \A c, d \in Slots :
    /\ c # d
    /\ calls[c].action = calls[d].action
    /\ calls[c].action \in Recognized \ {"ping"}
    /\ calls[c].sender = "popup" /\ calls[d].sender = "popup"
    => calls[c].result = "OperationInProgress" \/ calls[d].result = "OperationInProgress"

\* C13: the step in which a ping arrives, from whichever origin, in whichever ledger
\* state and with whatever else in flight, answers it with success and changes
\* neither the ledger, the scheduler, the media session nor another call
C13_PingAnsweredAtOnce ==
  [][\A c \in Slots :
       calls[c].pc = "idle" /\ calls'[c].action = "ping"
       => /\ calls'[c].pc = "done" /\ calls'[c].result = "ok" /\ calls'[c].answers = 1
          /\ \A d \in Slots \ {c} : calls'[d] = calls[d]
          /\ UNCHANGED <<dhikrVars, audioVars>>]_vars

\* a ping of the offscreen document was answered with success while a start was
\* being handled and its ledger entry was a second old
C13_PingWhileBusy ==
  \E c, d \in Slots :
    /\ calls[c].action = "ping" /\ calls[c].sender = "offscreen"
    /\ calls[c].pc = "done" /\ calls[c].result = "ok"
    /\ calls[d].action = "startDhikrNotifications" /\ calls[d].pc = "clear"
    /\ ongoingOperations["startDhikrNotifications"] = 1

\* C14: the step in which a message with an action name outside the vocabulary
\* arrives from the popup or a content script answers it once with the failure
\* 'Unknown action: <name>' (not with the error of the catch block) and changes
\* neither the ledger, the scheduler, the media session nor another call
C14_UnknownActionRefused ==
  [][\A c \in Slots :
       /\ calls[c].pc = "idle" /\ calls'[c].pc # "idle"
       /\ calls'[c].action \notin Recognized /\ calls'[c].sender \in UIOrigins
       => /\ calls'[c].pc = "done" /\ calls'[c].answers = 1
          /\ calls'[c].action = "doTheImpossible" => calls'[c].result = "Unknown action: doTheImpossible"
          /\ calls'[c].action = "playaudio" => calls'[c].result = "Unknown action: playaudio"
          /\ calls'[c].action \in UnknownActions
          /\ \A d \in Slots \ {c} : calls'[d] = calls[d]
          /\ UNCHANGED <<dhikrVars, audioVars>>]_vars

\* an unknown action of a content script was refused while a start was being handled
C14_UnknownWhileBusy ==
  \E c, d \in Slots :
    /\ calls[c].action = "doTheImpossible" /\ calls[c].sender = "tab"
    /\ calls[c].result = "Unknown action: doTheImpossible"
    /\ calls[d].action = "startDhikrNotifications" /\ calls[d].pc = "clear"

\* C15: the step in which a message of the offscreen document arrives, whatever its
\* action other than ping, answers it with the 'ignored' failure without dispatching
\* it: the ledger, the scheduler, the media session and every other call are
\* unchanged, and no call of that origin is ever waiting on a handler or on the
\* forward to the offscreen document
C15_OffscreenOriginIgnored ==
  /\ [][\A c \in Slots :
          /\ calls[c].pc = "idle" /\ calls'[c].sender = "offscreen" /\ calls'[c].action # "ping"
          => /\ calls'[c].pc = "done" /\ calls'[c].result = "Ignored" /\ calls'[c].answers = 1
             /\ \A d \in Slots \ {c} : calls'[d] = calls[d]
             /\ UNCHANGED <<dhikrVars, audioVars>>]_vars
  /\ [](\A c \in Slots : calls[c].sender = "offscreen" => calls[c].pc \in {"idle", "done"})

\* a start sent by the offscreen document was ignored while the document existed and
\* the ledger held no entry for the action
C15_OffscreenStartIgnored ==
  \E c \in Slots :
    /\ calls[c].action = "startDhikrNotifications" /\ calls[c].sender = "offscreen"
    /\ calls[c].result = "Ignored"
    /\ offscreenDoc
    /\ ongoingOperations["startDhikrNotifications"] = -1

\* the audio context answers the playAudio of slot c in this step
PlayAnswered(c) ==
  /\ calls[c].action = "playAudio" /\ calls[c].sender \in UIOrigins
  /\ calls[c].pc \notin {"reply", "done"} /\ calls'[c].pc \in {"reply", "done"}

\* C16: when a playAudio is answered with success the media session state names the
\* url and the track of the message, at position 0 and playing, and the persisted
\* audioState is that same state; when it is answered with a failure the state is
\* not playing
C16_PlayContract ==
  [][\A c \in Slots :
       PlayAnswered(c)
       => IF calls'[c].result = "ok"
          THEN /\ currentAudioState'.audioUrl = calls[c].sura
               /\ currentAudioState'.suraId = calls[c].sura
               /\ currentAudioState'.currentTime = 0
               /\ currentAudioState'.isPlaying
               /\ audioState' = <<currentAudioState'>>
          ELSE ~currentAudioState'.isPlaying]_vars

\* C17: when playAudio(B) was issued while playAudio(A) was being loaded or A was
\* playing, then once B is answered with success and no play is left unanswered the
\* element holds B's source and the media session state names B's url and track
C17_LaterPlayWins ==
  \A c \in Slots :
    /\ calls[c].action = "playAudio" /\ calls[c].sura = TrackB
    /\ calls[c].pc = "done" /\ calls[c].result = "ok"
    /\ \A d \in Slots : calls[d].action = "playAudio" => calls[d].pc = "done"
    => /\ audioPlayer.src = TrackB
       /\ currentAudioState.audioUrl = TrackB
       /\ currentAudioState.suraId = TrackB

\* the offscreen document answers the getAudioState of slot c in this step with the
\* state it holds
StateReturned(c) ==
  /\ calls[c].action = "getAudioState" /\ calls[c].pc # "reply"
  /\ calls'[c].pc = "reply" /\ calls'[c].result = "ok"

\* C18: a getAudioState that is answered while a playAudio is still loading its
\* track never returns that track's url together with the isPlaying = true of the
\* track before it, i.e. isPlaying = true while the element is not playing
C18_NoTornState ==
  [][\A c, d \in Slots :
       /\ StateReturned(c)
       /\ calls[d].action = "playAudio" /\ calls[d].pc = "load"
       => ~(/\ currentAudioState.audioUrl = calls[d].sura
            /\ currentAudioState.isPlaying
            /\ ~audioPlayer.playing)]_vars

\* the audio context runs the pauseAudio of slot c in this step and answers with success
PauseAnswered(c) ==
  /\ calls[c].pc \notin {"reply", "done"}
  /\ calls'[c].action = "pauseAudio" /\ calls'[c].pc \in {"reply", "done"} /\ calls'[c].result = "ok"

\* C19: a pauseAudio that finds a session (the state names a track) leaves the state
\* not playing, with the same url, track and position as before, and the persisted
\* audioState is that state
C19_PauseKeepsSession ==
  [][\A c \in Slots :
       PauseAnswered(c) /\ currentAudioState.audioUrl # 0
       => /\ ~currentAudioState'.isPlaying
          /\ currentAudioState'.audioUrl = currentAudioState.audioUrl
          /\ currentAudioState'.suraId = currentAudioState.suraId
          /\ currentAudioState'.currentTime = currentAudioState.currentTime
          /\ audioState' = <<currentAudioState'>>]_vars

\* the audio context runs the seekAudio of slot c in this step and answers with success
SeekAnswered(c) ==
  /\ calls[c].pc \notin {"reply", "done"}
  /\ calls'[c].action = "seekAudio" /\ calls'[c].pc \in {"reply", "done"} /\ calls'[c].result = "ok"

\* C20: a seekAudio that finds a session leaves the position at the requested time
\* brought into [0, duration] when the duration is known, at the requested time
\* itself when it is not; and in every state with a known duration the position is
\* within [0, duration]
C20_SeekClamped ==
  /\ [][\A c \in Slots :
          SeekAnswered(c) /\ currentAudioState.audioUrl # 0
          => currentAudioState'.currentTime =
               IF currentAudioState.duration > 0
               THEN Max(0, Min(calls'[c].time, currentAudioState.duration))
               ELSE calls'[c].time]_vars
  /\ [](currentAudioState.duration > 0
          => currentAudioState.currentTime >= 0 /\ currentAudioState.currentTime <= currentAudioState.duration)

\* C21: a getAudioState that found no offscreen document (it had to create one) is
\* answered with success and a neutral state: no track, not playing, position 0
C21_AbsentEngineNeutral ==
  [][\A c \in Slots :
       /\ calls[c].action = "getAudioState" /\ calls[c].pc \in {"createDocument", "wait"}
       /\ calls'[c].pc \in {"reply", "done"}
       => /\ calls'[c].result = "ok"
          /\ currentAudioState'.audioUrl = 0
          /\ ~currentAudioState'.isPlaying
          /\ currentAudioState'.currentTime = 0]_vars

\* the audio context answers the play, pause, resume or seek of slot c in this step
CommandAnswered(c) ==
  /\ calls[c].pc \notin {"reply", "done"}
  /\ calls'[c].action \in {"playAudio", "pauseAudio", "resumeAudio", "seekAudio"}
  /\ calls'[c].pc \in {"reply", "done"}

\* the track reaches its end in this step
TrackEnds == audioPlayer.playing /\ audioPlayer.currentTime = TrackDuration /\ ~audioPlayer'.playing /\ calls' = calls

\* the persisted snapshot names the same url and track and the same isPlaying as the
\* state in memory; no snapshot counts as the neutral state
SnapshotCurrent ==
  LET saved == IF audioState = << >> THEN NoAudio ELSE audioState[1]
  IN /\ saved.audioUrl = currentAudioState.audioUrl
     /\ saved.suraId = currentAudioState.suraId
     /\ saved.isPlaying = currentAudioState.isPlaying

\* C22: when a play, pause, resume or seek has been answered, with success or with
\* a failure, and when a track has reached its end, the persisted snapshot agrees
\* with the state in memory in url, track and isPlaying
C22_ImmediatePersist ==
  [][((\E c \in Slots : CommandAnswered(c)) \/ TrackEnds) => SnapshotCurrent']_vars

\* the router answers the playAudio of slot c, or handleAutoplayNext receives the
\* answer to the playAudio it sent, with success in this step
PlaySucceeds(c) ==
  /\ calls[c].pc # "done" /\ calls'[c].pc = "done" /\ calls'[c].result = "ok"
  /\ \/ calls[c].action = "playAudio"
     \/ calls[c].action = "monitorTick" /\ calls[c].pc = "reply"

\* C23: at the moment a playAudio, sent by the popup or by the monitor itself, is
\* answered with success the polling timer of the autoplay monitor is active (the
\* timer is replaced, never doubled, so it is exactly one)
C23_MonitorRunsAfterPlay ==
  [][\A c \in Slots : PlaySucceeds(c) => audioMonitoringInterval']_vars

\* the tick of slot c has been told that its playAudio failed
FailedAttempt(c) ==
  /\ calls[c].action = "monitorTick"
  /\ calls[c].pc = "done"
  /\ calls[c].result \notin {"ok", "none"}

\* C24: a tick that finds no document or no session stops the monitor; a tick whose
\* url resolution or whose playAudio fails stops the monitor; and once a failed
\* attempt has stopped the monitor no tick sends another playAudio
C24_BoundedAutoplayFailure ==
  [][\A c \in Slots : calls[c].action = "monitorTick" /\ calls'[c].pc # calls[c].pc =>
        /\ calls[c].pc = "hasDocument" /\ ~offscreenDoc => ~audioMonitoringInterval'
        /\ calls[c].pc = "getState" /\ offscreenDoc /\ currentAudioState.audioUrl = 0 => ~audioMonitoringInterval'
        /\ calls[c].pc = "url" /\ calls'[c].pc = "done" => ~audioMonitoringInterval'
        /\ calls[c].pc = "reply" /\ calls[c].result # "ok" => ~audioMonitoringInterval'
        /\ calls[c].pc = "url" /\ calls'[c].pc # "done" =>
             ~(~audioMonitoringInterval /\ \E d \in Slots \ {c} : FailedAttempt(d))]_vars

\* the track the catalogue of 1..114 continues with after track n
Wrapped(n) == IF n < LastSura THEN n + 1 ELSE 1

\* C25: from every track n of 1..114 the next-track computation yields n+1, and 1
\* from 114, so a track of 1..114; the popup's getNextSuraId and the background's
\* handleAutoplayNext yield the same id, and the play each of them starts is for it
C25_WrapAround ==
  /\ [](LET n == currentAudioState.suraId
            s == toString(n)
        IN n \in 1..LastSura =>
             /\ getNextSuraId(s) = toString(Wrapped(n))
             /\ parseInt(getNextSuraId(s)) \in 1..LastSura
             /\ nextSuraId(s) = getNextSuraId(s))
  /\ [][\A c \in Slots :
          /\ calls[c].pc = "selections" /\ calls'[c].pc = "url" => calls'[c].sura = Wrapped(calls[c].sura)
          /\ calls[c].pc = "idle" /\ calls'[c].action = "playAudio" =>
               calls'[c].sura = Wrapped(currentAudioState.suraId)]_vars

\* the last track has ended: the monitor's tick and the popup have both moved on to track 1
C25_BothWrapToFirst ==
  /\ \E c \in Slots : calls[c].action = "monitorTick" /\ calls[c].pc = "url" /\ calls[c].sura = 1
  /\ \E c \in Slots : calls[c].action = "playAudio" /\ calls[c].pc = "hasDocument" /\ calls[c].sura = 1
  /\ currentAudioState.suraId = LastSura

\* the last resort of a firing: the test window of a confirmation, the sound otherwise
LastResorts == {"window", "sound"}

\* C26: a firing uses the channel its mode selects: in popup mode only the popup
\* window; in notification mode the system notification, then the notification of the
\* offscreen document, then the last resort, each tried only when every channel
\* before it failed, so that at most one channel delivers the entry
C26_OneChannelByMode ==
  firing.mode # "none" =>
    /\ Cardinality(firing.by) <= 1
    /\ firing.mode = "popup" => firing.attempted = <<"popup">>
    /\ firing.mode # "popup" =>
         /\ \A i \in DOMAIN firing.attempted :
              /\ i = 1 => firing.attempted[i] = "chrome"
              /\ i = 2 => firing.attempted[i] = "browser"
              /\ i = 3 => firing.attempted[i] \in LastResorts
              /\ i < Len(firing.attempted) => firing.attempted[i] \notin firing.by
         /\ Len(firing.attempted) <= 3

\* a firing in notification mode whose system notification failed and whose
\* notification of the offscreen document delivered
C26_SecondChannelDelivers ==
  /\ firing.mode = "notification"
  /\ firing.attempted = <<"chrome", "browser">>
  /\ firing.by = {"browser"}

\* C27: a firing in notification mode that no channel delivered has tried every
\* fallback: the system notification, the notification of the offscreen document and
\* the last resort
C27_SilentOnlyWhenExhausted ==
  firing.mode \notin {"none", "popup"} /\ firing.by = {} =>
    /\ Len(firing.attempted) = 3
    /\ firing.attempted[3] \in LastResorts

\* the step runs showDhikrNotification
Fires == firing'.mode # "none"

\* the scheduler is armed with an interval below the alarm threshold
FineTimerMode == dhikrNotificationsActive /\ dhikrIntervalSeconds < AlarmThresholdSec

\* the alarm listener or the callback of a fine timer runs
ScheduledFiring == AlarmFire \/ \E named \in BOOLEAN : TimeoutFire(named)

\* unless the scheduler is un-armed again and again, the alarm or the fine timer
\* fires again and again
FiringsRecur == []<>(~dhikrNotificationsActive) \/ []<><<ScheduledFiring>>_vars

\* C28: a firing, whatever its delivery outcome, leaves the armed flag, the interval
\* and the mode as they were and the alarm registered, and in fine-timer mode exactly
\* one next timer is pending after it; while the scheduler stays armed the firings
\* recur forever
C28_FiringKeepsArmed ==
  /\ [][Fires =>
          /\ dhikrNotificationsActive' = dhikrNotificationsActive
          /\ dhikrIntervalSeconds' = dhikrIntervalSeconds
          /\ dhikrReminderMode' = dhikrReminderMode
          /\ alarm' = alarm
          /\ FineTimerMode => timeouts' = 1]_vars
  /\ FiringsRecur

\* a firing of the fine timer in which every channel failed: the scheduler is still
\* armed and the next timer is pending
C28_FailedFiringStillArmed ==
  /\ firing.mode = "notification"
  /\ firing.attempted = <<"chrome", "browser", "sound">>
  /\ firing.by = {}
  /\ FineTimerMode
  /\ timeouts = 1

\* the call in slot c is a run of the onStartup or of the onInstalled listener
Reconciles(c) == calls[c].action \in {"onStartup", "onInstalled"}

\* both listeners of the launch have started the scheduler and run to their end
BothReconciled ==
  /\ \E c \in Slots : calls[c].action = "onStartup" /\ calls[c].pc = "done" /\ calls[c].result = "ok"
  /\ \E c \in Slots : calls[c].action = "onInstalled" /\ calls[c].pc = "done" /\ calls[c].result = "ok"

\* C30: a listener that reads settings with notificationsEnabled enters
\* startDhikrNotifications with the saved interval (when one was saved: 0 stands for
\* none) and the saved mode; one that reads them
\* disabled or absent ends and leaves the scheduler as it is; no step of a listener
\* touches the audio session or its snapshot; and once both listeners of a launch
\* have started the scheduler it is armed with exactly one timer
C30_StartupReconciler ==
  /\ [][\A c \in Slots : Reconciles(c) /\ calls'[c].pc # calls[c].pc =>
          /\ calls[c].pc = "storage" =>
               IF dhikrSettings.notificationsEnabled
               THEN /\ calls'[c].pc # "done"
                    /\ dhikrSettings.interval # 0 => calls'[c].interval = dhikrSettings.interval
                    /\ calls'[c].mode = dhikrSettings.mode
               ELSE /\ calls'[c].pc = "done"
                    /\ UNCHANGED schedVars
          /\ Reconciles(c)' => UNCHANGED <<offscreenDoc, loadPending, audioPlayer, currentAudioState, audioState>>]_vars
  /\ [](BothReconciled =>
          /\ dhikrNotificationsActive
          /\ dhikrReminderMode = dhikrSettings.mode
          /\ dhikrSettings.interval # 0 => dhikrIntervalSeconds = dhikrSettings.interval
          /\ \/ alarm # 0 /\ timeouts = 0
             \/ alarm = 0 /\ timeouts = 1)

\* settings with reminders on and an interval of 30 seconds were read by both
\* listeners of a launch, both have started the scheduler, and one fine timer is pending
C30_BothListenersOneTimer ==
  /\ BothReconciled
  /\ dhikrIntervalSeconds = 30
  /\ timeouts = 1


\* the confirmation callback runs in this step
Confirms == confirmTimers # << >> /\ confirmTimers' = Tail(confirmTimers) /\ Fires

\* the start of slot c arms the scheduler and sets its confirmation timer in this step
Arms(c) ==
  /\ calls[c].action \in {"startDhikrNotifications", "onStartup", "onInstalled"}
  /\ calls[c].pc \in {"clear", "create"}
  /\ calls'[c].pc = "done" /\ calls'[c].result = "ok"

\* C29: a start that arms the scheduler sets exactly one confirmation timer, due
\* ConfirmDelaySec later; the confirmation leaves the alarm and the fine timer as they
\* are; and it is delivered in the mode that start armed
C29_OneConfirmationPerStart ==
  [][/\ \A c \in Slots : Arms(c) =>
          /\ Len(confirmTimers') = Len(confirmTimers) + 1
          /\ confirmTimers'[Len(confirmTimers')].rem = ConfirmDelaySec
     /\ Confirms =>
          /\ UNCHANGED <<alarm, timeouts, dhikrTimeoutId>>
          /\ firing'.mode = Head(confirmTimers).armed]_vars

\* C31: whenever no reminder command is in flight, the persisted enabled flag equals
\* the scheduler's armed state and, if armed, the persisted interval and mode are the
\* scheduler's interval and mode
C31_PersistedTracksScheduler ==
  (Quiet /\ toggleCall = 0) =>
    /\ dhikrSettings.notificationsEnabled = dhikrNotificationsActive
    /\ dhikrNotificationsActive =>
         /\ dhikrSettings.interval = dhikrIntervalSeconds
         /\ DefaultMode(dhikrSettings.mode) = dhikrReminderMode

\* C31, the late response alone: the toggle was switched on, its request timed out
\* and the start succeeded afterwards
C31_LateSuccessUnsaved ==
  (Quiet /\ toggleCall = 0 /\ dhikrNotificationsActive) => dhikrSettings.notificationsEnabled

\* C31, the rejected update alone: the persisted flag is right and the interval differs
C31_RejectedUpdateSaved ==
  (Quiet /\ toggleCall = 0 /\ dhikrNotificationsActive /\ dhikrSettings.notificationsEnabled) =>
    dhikrSettings.interval = dhikrIntervalSeconds

\* the session record names no track and is not playing
SessionCleared(st) == st.audioUrl = 0 /\ st.suraId = 0 /\ ~st.isPlaying

\* the monitor's tick finds the ended track with autoplay off and stops monitoring
MonitorStopsAtEnd(c) == calls[c].pc = "selections" /\ ~autoplayEnabled /\ calls'[c].pc = "done"

\* the context that hosts the audio element is closed in this step
EngineTornDown == offscreenDoc /\ ~offscreenDoc'

\* the session a reader gets: the record in memory, and without a context the
\* snapshot the next context loads
Session == IF offscreenDoc THEN currentAudioState ELSE IF audioState = << >> THEN NoAudio ELSE audioState[1]

\* C32: once a track has ended by itself with autoplay off and the monitor has seen
\* it, and once the audio context has been torn down, the session names no track url
\* and no track id and is not playing
C32_SessionCleared ==
  [][((\E c \in Slots : MonitorStopsAtEnd(c)) \/ EngineTornDown) => SessionCleared(Session')]_vars

\* C32, the end of the track alone
C32_ClearedAtEnd ==
  [][(\E c \in Slots : MonitorStopsAtEnd(c)) => SessionCleared(Session')]_vars

\* C32, the teardown alone
C32_ClearedAtTeardown ==
  [][EngineTornDown => SessionCleared(Session')]_vars

\* C32 in the build without an offscreen document: the ended event with autoplay off
C32_ClearedAtEndedEvent ==
  [][(TrackEnds /\ ~autoplayEnabled) => SessionCleared(currentAudioState')]_vars

\* a message with reminder action key is dispatched to its handler in slot c in this step
DispatchedNow(c, key) ==
  /\ calls[c].pc = "idle"
  /\ calls'[c].action = key
  /\ calls'[c].result # "OperationInProgress"

\* a handler of an earlier call with that key has not answered yet
Outstanding(key) == \E d \in Slots : calls[d].action = key /\ calls[d].pc \notin {"idle", "done"}

\* a call with that key was completed and the eviction its completion scheduled has
\* not run yet
JustCompleted(key) == \E e \in evictTimers : e.key = key

\* C33: no call with a reminder action key is dispatched while the handler of an
\* earlier call with the same key is outstanding, nor between the completion of such
\* a call and the eviction that completion scheduled
C33_LedgerExcludes ==
  [][\A c \in Slots, key \in DhikrActions :
       DispatchedNow(c, key) => ~Outstanding(key) /\ ~JustCompleted(key)]_vars

\* C33, the outstanding handler alone
C33_NoneWhileOutstanding ==
  [][\A c \in Slots, key \in DhikrActions : DispatchedNow(c, key) => ~Outstanding(key)]_vars

\* C33, the cool-down alone
C33_NoneInCoolDown ==
  [][\A c \in Slots, key \in DhikrActions : DispatchedNow(c, key) => ~JustCompleted(key)]_vars

\* C33, the late eviction: an eviction does not remove the entry of a call that is
\* outstanding
C33_EvictionSparesOutstanding ==
  [][\A key \in DhikrActions : Outstanding(key) /\ ongoingOperations[key] >= 0 => ongoingOperations'[key] >= 0]_vars

\* C34: at most one scheduling primitive exists at any time: never the alarm together
\* with a pending fine timer, never two pending fine timers
C34_OnePrimitive == ~(alarm # 0 /\ timeouts > 0) /\ timeouts <= 1

\* C34, the alarm beside a timer alone
C34_NeverAlarmAndTimer == ~(alarm # 0 /\ timeouts > 0)

\* C34, two self-rescheduling chains alone
C34_NeverTwoTimers == timeouts <= 1

\* the start of slot c fails in this step: permission denied, or alarms.create threw
StartFails(c) ==
  /\ calls[c].action = "startDhikrNotifications"
  /\ calls[c].pc \in {"perm", "create"}
  /\ calls'[c].pc = "done"
  /\ calls'[c].result \in {"PermissionDenied", "Failed"}

\* the flag is set exactly when the alarm or a fine timer is armed
FlagMatchesPrimitive == dhikrNotificationsActive <=> (Primitive # "idle")

\* C35: a start that fails leaves what was armed when it arrived (the same primitive,
\* the flag set if something was armed; on a denied permission the same interval,
\* mode and timer), and between commands the flag is set exactly when the alarm or a
\* fine timer is armed
C35_FailedStartKeepsScheduler ==
  /\ [][\A c \in Slots : StartFails(c) =>
          /\ Primitive' = calls[c].prior
          /\ calls[c].prior # "idle" => dhikrNotificationsActive'
          /\ calls[c].pc = "perm" => UNCHANGED <<dhikrIntervalSeconds, dhikrReminderMode, alarm, timeouts, dhikrTimeoutId>>]_vars
  /\ [](Quiet => FlagMatchesPrimitive)

\* C35, the denied permission alone: what was armed stays armed and the flag stays set
C35_DeniedStartKeepsFlag ==
  [][\A c \in Slots : StartFails(c) /\ calls[c].pc = "perm" /\ calls[c].prior # "idle" => dhikrNotificationsActive']_vars

\* C35, the failed creation alone: what was armed is armed again
C35_FailedCreateRestores ==
  [][\A c \in Slots : StartFails(c) /\ calls[c].pc = "create" => Primitive' = calls[c].prior]_vars

\* C35, the flag between commands alone
C35_FlagMatchesBetweenCommands == Quiet => FlagMatchesPrimitive

\* the command of slot c puts the scheduler in its mode in this step: a start or an
\* interval update resuming from alarms.clear, or an accepted mode update
SetsMode(c) ==
  \/ /\ calls[c].action \in {"startDhikrNotifications", "updateDhikrInterval"}
     /\ calls[c].pc = "clear"
     /\ calls'[c].pc \in {"create", "done"}
  \/ /\ calls[c].pc = "idle"
     /\ calls'[c].action = "updateDhikrMode"
     /\ calls'[c].result = "ok"

\* firings go through the notification chain: showDhikrNotification takes its early
\* return only for 'popup'
DeliversByNotification(mode) == mode # "popup"

\* C36: the mode is always notification or popup, and a command that leaves the
\* scheduler armed in a mode whose firings go through the notification chain has read
\* the permission and found it not denied
C36_ModeCheckedBeforeArmed ==
  /\ [](dhikrReminderMode \in Modes)
  /\ [][\A c \in Slots :
          SetsMode(c) /\ DeliversByNotification(dhikrReminderMode') /\ dhikrNotificationsActive' =>
            calls'[c].perm \notin {"unread", "denied"}]_vars

\* C36, the set of modes alone
C36_ModeRecognized == dhikrReminderMode \in Modes

\* C36, the mode update alone
C36_UpdateModeChecked ==
  [][\A c \in Slots :
       calls[c].pc = "idle" /\ calls'[c].action = "updateDhikrMode" /\ calls'[c].result = "ok"
         /\ dhikrReminderMode' = "notification" /\ dhikrNotificationsActive' =>
           calls'[c].perm \notin {"unread", "denied"}]_vars

\* C36, the recognized payloads alone: a start with mode notification, popup or no
\* mode at all that arms for notification delivery has read the permission
C36_StartChecked ==
  [][\A c \in Slots :
       calls[c].action = "startDhikrNotifications" /\ calls[c].mode # "other" /\ SetsMode(c)
         /\ DeliversByNotification(dhikrReminderMode') =>
           calls'[c].perm \notin {"unread", "denied"}]_vars

\* C37: a getAudioState is answered with isPlaying = true only while the audio element
\* is playing the url the state names
C37_PlayingOnlyWhilePlaying ==
  [][\A c \in Slots :
       StateReturned(c) /\ currentAudioState'.isPlaying =>
         audioPlayer'.playing /\ audioPlayer'.src = currentAudioState'.audioUrl]_vars

\* C37, the recreated engine: an answer with isPlaying = true comes from a playing element
C37_ReportedPlayingIsPlaying ==
  [][\A c \in Slots :
       StateReturned(c) /\ currentAudioState'.isPlaying => audioPlayer'.playing]_vars

\* resumeAudio of slot c is forwarded in this step and throws 'No audio loaded to resume'
NoAudioToResume(c) ==
  /\ calls[c].action = "resumeAudio"
  /\ calls[c].pc \in {"hasDocument", "wait"} /\ calls'[c].pc = "reply"
  /\ offscreenDoc /\ currentAudioState.audioUrl = 0

\* a snapshot that names a track is persisted
PersistedTrack == audioState # << >> /\ audioState[1].audioUrl # 0

\* C38: the start-up read of the snapshot never overrides a command handled after the
\* document started: a playAudio answered with success leaves the state naming the url
\* and the track of that play, and resumeAudio does not throw 'No audio loaded to
\* resume' while a snapshot that names a track is persisted
C38_LoadNeverOverrides ==
  [][\A c \in Slots :
       /\ PlayAnswered(c) /\ calls'[c].result = "ok"
            => currentAudioState'.audioUrl = calls[c].sura /\ currentAudioState'.suraId = calls[c].sura
       /\ NoAudioToResume(c) => ~PersistedTrack]_vars

\* C38, the play on its own
C38_PlayKeepsItsTrack ==
  [][\A c \in Slots :
       PlayAnswered(c) /\ calls'[c].result = "ok"
         => currentAudioState'.audioUrl = calls[c].sura /\ currentAudioState'.suraId = calls[c].sura]_vars

\* C38, the resume on its own
C38_ResumeFindsPersisted ==
  [][\A c \in Slots : NoAudioToResume(c) => ~PersistedTrack]_vars

\* the tick of slot c calls stopAudioMonitoring in this step and a timer is cleared
TickStopsMonitor(c) ==
  /\ calls[c].action = "monitorTick"
  /\ calls[c].pc # "done" /\ calls'[c].pc = "done"
  /\ audioMonitoringInterval /\ ~audioMonitoringInterval'

\* C39: the polling timer of the monitor is cleared only by a tick of that timer: a
\* tick, or the handleAutoplayNext it entered, that began under a timer which a later
\* successful playAudio has replaced never clears the new timer
C39_OwnTickStops ==
  [][\A c \in Slots : TickStopsMonitor(c) => ~calls[c].stale]_vars

\* C39, the failed resolution: a handleAutoplayNext whose getNextSuraAudioUrl fails
\* after a successful playAudio replaced the timer leaves the new timer running
C39_FailedResolutionSparesNewTimer ==
  [][\A c \in Slots : TickStopsMonitor(c) /\ calls[c].pc = "url" => ~calls[c].stale]_vars

\* C39, the failed play: a handleAutoplayNext whose playAudio is answered with a failure
\* after a successful playAudio replaced the timer leaves the new timer running
C39_FailedPlaySparesNewTimer ==
  [][\A c \in Slots : TickStopsMonitor(c) /\ calls[c].pc = "reply" => ~calls[c].stale]_vars

\* C39, the harm: no tick of a replaced timer clears the new timer while the track of
\* the play that replaced it is playing
C39_PlayingTrackStaysMonitored ==
  [][\A c \in Slots : TickStopsMonitor(c) /\ calls[c].stale => ~audioPlayer.playing]_vars

====
